---- MODULE Spec2Model ----
(***************************************************************************)
(* Model of the SIEV firmware command engines.                             *)
(*                                                                         *)
(* Two firmware variants are modelled; a device runs exactly one of them, *)
(* chosen in Init:                                                         *)
(*   "wizard" : hardware/tes_tesis_arduino/tes_tesis_arduino.ino           *)
(*              (telemetry scheduler, pause, modes, calibration wizard)    *)
(*   "esp"    : the ESP8266 firmware v1.2.0 (unnamed/part_000; its parser  *)
(*              and LED/IMU handlers are the same in esp8266_siev.ino)     *)
(*                                                                         *)
(* Strings are sequences of one-character strings.  Time is the true time  *)
(* in milliseconds; millis() and micros() are derived from it with their   *)
(* 32-bit width.  One loop() iteration runs its parts one step each, in    *)
(* the order of the source; bytes arrive between iterations.               *)
(***************************************************************************)
EXTENDS Integers, Sequences, FiniteSets, TLC

VARIABLES
    variant,        \* which firmware this device runs
    pc,             \* "setup", "run" or "halted"
    ip,             \* 0: loop() returned; 1: serialEvent() ran; 2: in loop(), one part run
    now,            \* true time in ms
    out,            \* lines written to Serial by the last step
    \* ---- wizard firmware globals (tes_tesis_arduino.ino:19-37)
    inputString, stringComplete,
    previousMicros, interval,       \* in units of 8 us
    isPaused, isCalibrating, isVHITMode,
    offsetYaw, offsetPitch, offsetRoll,
    calTimer, calStep,
    pin12, pin14,   \* LED pin levels, TRUE = HIGH
    currentMicros,  \* loop()'s local, read at the top of the iteration
    \* ---- esp firmware globals (part_000:199-219)
    rx,             \* bytes waiting in the serial port
    inputBuffer,
    leftLedState, rightLedState,
    imuInitialized, imuLiveMode, lastIMURead,
    espnowEnabled, otaEnabled,
    \* ---- history
    calStart,       \* when the calibration session that runs began (ms), else 0
    progressAt      \* when the session that runs last printed its progress,
                    \* calStart if it has not yet, else 0

vars == << variant, pc, ip, now, out,
           inputString, stringComplete, previousMicros, interval,
           isPaused, isCalibrating, isVHITMode,
           offsetYaw, offsetPitch, offsetRoll, calTimer, calStep,
           pin12, pin14, currentMicros, calStart, progressAt,
           rx, inputBuffer, leftLedState, rightLedState,
           imuInitialized, imuLiveMode, lastIMURead,
           espnowEnabled, otaEnabled >>

espVars == << rx, inputBuffer, leftLedState, rightLedState,
              imuInitialized, imuLiveMode, lastIMURead,
              espnowEnabled, otaEnabled >>

\* ------------------------------------------------------------------------
\* Machine arithmetic
\* ------------------------------------------------------------------------

\* The checker's integers are 32-bit signed, an unsigned long (32 bits) does
\* not fit.  Every microsecond quantity of the firmware is a multiple of
\* 1000 us taken modulo 2^32, hence a multiple of 8 us: microsecond
\* quantities are held in units of 8 us, modulo 2^32 / 8 = 2^29.  The map
\* x |-> x / 8 is exact on them and commutes with +, - and the comparisons.
UsPerUnit == 2 * 4

\* 2^32 / 8
UnitsMod == 65536 * 8192

\* a microsecond constant in units
units(us) == us \div UsPerUnit

\* the subtraction of two microsecond quantities as a signed difference,
\* without the wrap of unsigned arithmetic
C40_MutUSub(a, b) == a - b

\* unsigned long subtraction of two microsecond quantities (units)
USub(a, b) == (a - b) % UnitsMod

\* 2 * x as an unsigned long (units)
dbl(x) == (2 * x) % UnitsMod

\* (unsigned long)n * 1000 in units: n * 125 modulo 2^29, as
\* 128 n - 2 n - n so that no intermediate value leaves the integers
mul1000(n) ==
    LET x == n % UnitsMod
    IN  (((dbl(dbl(dbl(dbl(dbl(dbl(dbl(x))))))) - dbl(x)) % UnitsMod) - x) % UnitsMod

\* micros() at true time t (ms), in units
micros(t) == mul1000(t)

\* millis() at true time t (ms). A reading is held as the signed 32-bit
\* number with the same bits: t itself from boot on (times stay far below
\* 2^31 ms), and a negative t stands for the reading 2^32 + t, shortly
\* before the counter overflows at t = 0
millis(t) == t

\* unsigned long subtraction of two millisecond readings, the later one
\* first: the difference modulo 2^32 is the difference of the signed
\* readings, also when the counter overflowed in between
MsSub(a, b) == a - b

\* 2^32 modulo k, for k up to 2^15
Pow32Mod(k) == ((65536 % k) * (65536 % k)) % k

\* x % k for the unsigned long whose signed reading is x
UMod(x, k) == IF x >= 0 THEN x % k ELSE ((x % k) + Pow32Mod(k)) % k

\* ------------------------------------------------------------------------
\* Arduino String operations
\* ------------------------------------------------------------------------

Digits == <<"0", "1", "2", "3", "4", "5", "6", "7", "8", "9">>

LowerCase == <<"a", "b", "c", "d", "e", "f", "g", "h", "i", "j", "k", "l", "m",
               "n", "o", "p", "q", "r", "s", "t", "u", "v", "w", "x", "y", "z">>

UpperCase == <<"A", "B", "C", "D", "E", "F", "G", "H", "I", "J", "K", "L", "M",
               "N", "O", "P", "Q", "R", "S", "T", "U", "V", "W", "X", "Y", "Z">>

isDigit(c) == \E i \in 1..10 : Digits[i] = c

digitVal(c) == (CHOOSE i \in 1..10 : Digits[i] = c) - 1

isSpace(c) == c \in {" ", "\t", "\n", "\r"}

isTerminator(c) == c \in {"\n", "\r"}

toUpperChar(c) ==
    IF \E i \in 1..26 : LowerCase[i] = c
    THEN UpperCase[CHOOSE i \in 1..26 : LowerCase[i] = c]
    ELSE c

\* String::toUpperCase
toUpperCase(s) == [i \in 1..Len(s) |-> toUpperChar(s[i])]

\* String::trim : drops leading and trailing whitespace
RECURSIVE trimLeft(_)
trimLeft(s) ==
    IF s # <<>> /\ isSpace(Head(s)) THEN trimLeft(Tail(s)) ELSE s

RECURSIVE trimRight(_)
trimRight(s) ==
    IF s # <<>> /\ isSpace(s[Len(s)])
    THEN trimRight(SubSeq(s, 1, Len(s) - 1))
    ELSE s

trim(s) == trimRight(trimLeft(s))

\* String::startsWith
startsWith(s, p) == Len(s) >= Len(p) /\ SubSeq(s, 1, Len(p)) = p

\* String::substring(from) with a 0-based index
substring(s, from) == IF from >= Len(s) THEN <<>> ELSE SubSeq(s, from + 1, Len(s))

\* String::indexOf(ch) : 0-based index of the first occurrence, -1 if none
indexOf(s, ch) ==
    IF \E i \in 1..Len(s) : s[i] = ch
    THEN (CHOOSE i \in 1..Len(s) : s[i] = ch /\ \A j \in 1..(i - 1) : s[j] # ch) - 1
    ELSE -1

\* the digits at the front of s, as a number (acc is the value so far)
RECURSIVE leadingNumber(_, _)
leadingNumber(s, acc) ==
    IF s # <<>> /\ isDigit(Head(s))
    THEN leadingNumber(Tail(s), acc * 10 + digitVal(Head(s)))
    ELSE acc

\* String::toInt (atol): optional whitespace, optional sign, leading digits;
\* 0 when there is no number
toInt(s) ==
    LET t == trimLeft(s)
    IN  IF t # <<>> /\ Head(t) = "-" THEN 0 - leadingNumber(Tail(t), 0)
        ELSE IF t # <<>> /\ Head(t) = "+" THEN leadingNumber(Tail(t), 0)
        ELSE leadingNumber(t, 0)

\* ------------------------------------------------------------------------
\* Serial output: one record per println
\* ------------------------------------------------------------------------

Line(tag) == [tag |-> tag, num |-> 0, vals |-> <<>>, txt |-> <<>>]

LineNum(tag, n) == [tag |-> tag, num |-> n, vals |-> <<>>, txt |-> <<>>]

LineVals(tag, v) == [tag |-> tag, num |-> 0, vals |-> v, txt |-> <<>>]

LineTxt(tag, s) == [tag |-> tag, num |-> 0, vals |-> <<>>, txt |-> s]

Rep(tag, n) == [i \in 1..n |-> Line(tag)]

countTag(lines, tag) == Cardinality({i \in 1..Len(lines) : lines[i].tag = tag})

\* ------------------------------------------------------------------------
\* Wizard firmware (tes_tesis_arduino.ino)
\* ------------------------------------------------------------------------

\* command strings (tes_tesis_arduino.ino:11-16 and the literals of processCommand)
L_12_ON == <<"L", "_", "1", "2", "_", "O", "N">>

L_12_OFF == <<"L", "_", "1", "2", "_", "O", "F", "F">>

L_14_ON == <<"L", "_", "1", "4", "_", "O", "N">>

L_14_OFF == <<"L", "_", "1", "4", "_", "O", "F", "F">>

MODE_EULER == <<"M", "O", "D", "E", "_", "E", "U", "L", "E", "R">>

MODE_VHIT == <<"M", "O", "D", "E", "_", "V", "H", "I", "T">>

sHELP == <<"-", "h">>

sPAUSE == <<"P", "A", "U", "S", "E">>

sCAL == <<"C", "A", "L">>

sZERO == <<"Z", "E", "R", "O">>

sDELAY_ == <<"D", "E", "L", "A", "Y", "_">>

\* default Euler interval and the fixed VHIT interval, in microseconds
DefaultIntervalUs == 100000

VhitIntervalUs == 2000

\* the same in units
vhitInterval == units(VhitIntervalUs)

\* wizard timing (ms) and the quality threshold
GyroSettleMs == 3000

AccelTimeoutMs == 20000

MagTimeoutMs == 30000

CalThreshold == 2

\* number of println calls of showHelp
HelpLines == 26

\* the device state of the wizard firmware as one record
WDev ==
    [ previousMicros |-> previousMicros, interval |-> interval,
      isPaused |-> isPaused, isCalibrating |-> isCalibrating,
      isVHITMode |-> isVHITMode,
      offsetYaw |-> offsetYaw, offsetPitch |-> offsetPitch,
      offsetRoll |-> offsetRoll,
      calTimer |-> calTimer, calStep |-> calStep,
      pin12 |-> pin12, pin14 |-> pin14 ]

\* a handler's result: the new device state and the lines it printed
Res(w, lines) == [dev |-> w, lines |-> lines]

\* normalizeAngle: two while loops
RECURSIVE normalizeDown(_)
normalizeDown(angle) == IF angle > 180 THEN normalizeDown(angle - 360) ELSE angle

RECURSIVE normalizeUp(_)
normalizeUp(angle) == IF angle < -180 THEN normalizeUp(angle + 360) ELSE angle

normalizeAngle(angle) == normalizeUp(normalizeDown(angle))

\* setZeroPosition that stores the reading without the sign change of
\* lines 230-232
C19_MutSetZeroPosition(w, o) ==
    Res([w EXCEPT !.offsetYaw = o[1],
                  !.offsetPitch = o[2],
                  !.offsetRoll = o[3]],
        << Line("ZERO_SET") >>)

\* setZeroPosition with the sensor's orientation reading o = <<x, y, z>>
setZeroPosition(w, o) ==
    Res([w EXCEPT !.offsetYaw = 0 - o[1],
                  !.offsetPitch = 0 - o[2],
                  !.offsetRoll = 0 - o[3]],
        << Line("ZERO_SET") >>)

\* readAndSendEulerData with the sensor's orientation reading o
readAndSendEulerData(w, o) ==
    << LineVals("EULER",
                << normalizeAngle((0 - o[1]) - w.offsetYaw),
                   normalizeAngle((0 - o[2]) - w.offsetPitch),
                   normalizeAngle((0 - o[3]) - w.offsetRoll) >>) >>

\* readAndSendVHITData with the reading m = <<aX, aY, aZ, gX, gY, gZ>>
readAndSendVHITData(m) == << LineVals("VHIT", m) >>

\* the DELAY_ branch with the test newDelay > 0 of line 345 left out
C7_MutProcessDelay(w, command) ==
    IF ~w.isVHITMode
    THEN LET newDelay == toInt(substring(command, 6))
         IN  Res([w EXCEPT !.interval = mul1000(newDelay)],
                 << LineNum("NEW_INTERVAL_MS", newDelay) >>)
    ELSE Res(w, << Line("DELAY_NOT_AVAILABLE_IN_VHIT") >>)

\* the DELAY_ branch of processCommand
processDelay(w, command) ==
    IF ~w.isVHITMode
    THEN LET newDelay == toInt(substring(command, 6))
         IN  IF newDelay > 0
             THEN Res([w EXCEPT !.interval = mul1000(newDelay)],
                      << LineNum("NEW_INTERVAL_MS", newDelay) >>)
             ELSE Res(w, <<>>)
    ELSE Res(w, << Line("DELAY_NOT_AVAILABLE_IN_VHIT") >>)

\* processCommand whose PAUSE sets isPaused instead of toggling it (line 325)
C17_MutProcessCommand(w, raw, t, o) ==
    LET command == trim(raw)
    IN  IF command = sHELP THEN Res(w, Rep("HELP", HelpLines))
        ELSE IF command = L_12_ON
            THEN Res([w EXCEPT !.pin12 = FALSE], << Line("LED_12_ON") >>)
        ELSE IF command = L_12_OFF
            THEN Res([w EXCEPT !.pin12 = TRUE], << Line("LED_12_OFF") >>)
        ELSE IF command = L_14_ON
            THEN Res([w EXCEPT !.pin14 = FALSE], << Line("LED_14_ON") >>)
        ELSE IF command = L_14_OFF
            THEN Res([w EXCEPT !.pin14 = TRUE], << Line("LED_14_OFF") >>)
        ELSE IF command = MODE_EULER
            THEN Res([w EXCEPT !.isVHITMode = FALSE], << Line("MODE_EULER_ON") >>)
        ELSE IF command = MODE_VHIT
            THEN Res([w EXCEPT !.isVHITMode = TRUE], << Line("MODE_VHIT_ON") >>)
        ELSE IF command = sPAUSE
            THEN Res([w EXCEPT !.isPaused = TRUE], << Line("SENSOR_PAUSED") >>)
        ELSE IF command = sCAL
            THEN Res([w EXCEPT !.isCalibrating = TRUE,
                               !.calStep = 0,
                               !.calTimer = millis(t)],
                     Rep("CAL_BANNER", 5))
        ELSE IF command = sZERO THEN setZeroPosition(w, o)
        ELSE IF startsWith(command, sDELAY_) THEN processDelay(w, command)
        ELSE Res(w, <<>>)

\* processCommand whose CAL leaves a running session as it is
C29_MutProcessCommand(w, raw, t, o) ==
    LET command == trim(raw)
    IN  IF command = sHELP THEN Res(w, Rep("HELP", HelpLines))
        ELSE IF command = L_12_ON
            THEN Res([w EXCEPT !.pin12 = FALSE], << Line("LED_12_ON") >>)
        ELSE IF command = L_12_OFF
            THEN Res([w EXCEPT !.pin12 = TRUE], << Line("LED_12_OFF") >>)
        ELSE IF command = L_14_ON
            THEN Res([w EXCEPT !.pin14 = FALSE], << Line("LED_14_ON") >>)
        ELSE IF command = L_14_OFF
            THEN Res([w EXCEPT !.pin14 = TRUE], << Line("LED_14_OFF") >>)
        ELSE IF command = MODE_EULER
            THEN Res([w EXCEPT !.isVHITMode = FALSE], << Line("MODE_EULER_ON") >>)
        ELSE IF command = MODE_VHIT
            THEN Res([w EXCEPT !.isVHITMode = TRUE], << Line("MODE_VHIT_ON") >>)
        ELSE IF command = sPAUSE
            THEN Res([w EXCEPT !.isPaused = ~w.isPaused],
                     << Line(IF ~w.isPaused THEN "SENSOR_PAUSED"
                                            ELSE "SENSOR_RESUMED") >>)
        ELSE IF command = sCAL
            THEN IF w.isCalibrating
                 THEN Res(w, Rep("CAL_BANNER", 5))
                 ELSE Res([w EXCEPT !.isCalibrating = TRUE,
                                    !.calStep = 0,
                                    !.calTimer = millis(t)],
                          Rep("CAL_BANNER", 5))
        ELSE IF command = sZERO THEN setZeroPosition(w, o)
        ELSE IF startsWith(command, sDELAY_) THEN processDelay(w, command)
        ELSE Res(w, <<>>)

\* processCommand(command) at time t, the sensor reading o at hand for ZERO
processCommand(w, raw, t, o) ==
    LET command == trim(raw)
    IN  IF command = sHELP THEN Res(w, Rep("HELP", HelpLines))
        ELSE IF command = L_12_ON
            THEN Res([w EXCEPT !.pin12 = FALSE], << Line("LED_12_ON") >>)
        ELSE IF command = L_12_OFF
            THEN Res([w EXCEPT !.pin12 = TRUE], << Line("LED_12_OFF") >>)
        ELSE IF command = L_14_ON
            THEN Res([w EXCEPT !.pin14 = FALSE], << Line("LED_14_ON") >>)
        ELSE IF command = L_14_OFF
            THEN Res([w EXCEPT !.pin14 = TRUE], << Line("LED_14_OFF") >>)
        ELSE IF command = MODE_EULER
            THEN Res([w EXCEPT !.isVHITMode = FALSE], << Line("MODE_EULER_ON") >>)
        ELSE IF command = MODE_VHIT
            THEN Res([w EXCEPT !.isVHITMode = TRUE], << Line("MODE_VHIT_ON") >>)
        ELSE IF command = sPAUSE
            THEN Res([w EXCEPT !.isPaused = ~w.isPaused],
                     << Line(IF ~w.isPaused THEN "SENSOR_PAUSED"
                                            ELSE "SENSOR_RESUMED") >>)
        ELSE IF command = sCAL
            THEN Res([w EXCEPT !.isCalibrating = TRUE,
                               !.calStep = 0,
                               !.calTimer = millis(t)],
                     Rep("CAL_BANNER", 5))
        ELSE IF command = sZERO THEN setZeroPosition(w, o)
        ELSE IF startsWith(command, sDELAY_) THEN processDelay(w, command)
        ELSE Res(w, <<>>)

\* calGyro that enters the next phase after the settle time whatever the
\* gyroscope quality is (the test of line 123 left out)
C24_MutCalGyro(w, currentMillis, q, progress) ==
    IF MsSub(currentMillis, w.calTimer) < GyroSettleMs
    THEN Res(w, progress \o (IF UMod(currentMillis, 1000) = 0
                             THEN << Line("HOLD_STILL") >>
                             ELSE <<>>))
    ELSE Res([w EXCEPT !.calStep = w.calStep + 1,
                       !.calTimer = currentMillis],
             progress \o Rep("GYRO_DONE", 8))

\* handleCalibration, case 0 (lines 117-136): the gyroscope phase
calGyro(w, currentMillis, q, progress) ==
    IF MsSub(currentMillis, w.calTimer) < GyroSettleMs
    THEN Res(w, progress \o (IF UMod(currentMillis, 1000) = 0
                             THEN << Line("HOLD_STILL") >>
                             ELSE <<>>))
    ELSE IF q.gyro >= CalThreshold
         THEN Res([w EXCEPT !.calStep = w.calStep + 1,
                            !.calTimer = currentMillis],
                  progress \o Rep("GYRO_DONE", 8))
         ELSE Res([w EXCEPT !.calTimer = currentMillis], progress)

\* calAccel with the timeout of line 141 left out
C2_MutCalAccel(w, currentMillis, q, progress) ==
    IF q.accel >= CalThreshold
    THEN Res([w EXCEPT !.calStep = w.calStep + 1,
                       !.calTimer = currentMillis],
             progress \o Rep("ACCEL_DONE", 5))
    ELSE Res(w, progress \o (IF UMod(currentMillis, 3000) = 0
                             THEN << Line("KEEP_MOVING") >>
                             ELSE <<>>))

\* calAccel whose timeout ends the session instead of entering the next phase
C3_MutCalAccel(w, currentMillis, q, progress) ==
    IF q.accel >= CalThreshold
    THEN Res([w EXCEPT !.calStep = w.calStep + 1,
                       !.calTimer = currentMillis],
             progress \o Rep("ACCEL_DONE", 5))
    ELSE IF MsSub(currentMillis, w.calTimer) > AccelTimeoutMs
    THEN Res([w EXCEPT !.isCalibrating = FALSE],
             progress \o Rep("CAL_COMPLETE", 6))
    ELSE Res(w, progress \o (IF UMod(currentMillis, 3000) = 0
                             THEN << Line("KEEP_MOVING") >>
                             ELSE <<>>))

\* calAccel whose timeout fires at AccelTimeoutMs already (>= for > in
\* line 141)
C25_MutCalAccel(w, currentMillis, q, progress) ==
    IF q.accel >= CalThreshold
       \/ MsSub(currentMillis, w.calTimer) >= AccelTimeoutMs
    THEN Res([w EXCEPT !.calStep = w.calStep + 1,
                       !.calTimer = currentMillis],
             progress \o Rep("ACCEL_DONE", 5))
    ELSE Res(w, progress \o (IF UMod(currentMillis, 3000) = 0
                             THEN << Line("KEEP_MOVING") >>
                             ELSE <<>>))

\* handleCalibration, case 1 (lines 138-152): the accelerometer phase
calAccel(w, currentMillis, q, progress) ==
    IF q.accel >= CalThreshold
       \/ MsSub(currentMillis, w.calTimer) > AccelTimeoutMs
    THEN Res([w EXCEPT !.calStep = w.calStep + 1,
                       !.calTimer = currentMillis],
             progress \o Rep("ACCEL_DONE", 5))
    ELSE Res(w, progress \o (IF UMod(currentMillis, 3000) = 0
                             THEN << Line("KEEP_MOVING") >>
                             ELSE <<>>))

\* calMag whose timeout fires at MagTimeoutMs already (>= for > in line 155)
C26_MutCalMag(w, currentMillis, q, progress) ==
    IF q.mag >= CalThreshold
       \/ MsSub(currentMillis, w.calTimer) >= MagTimeoutMs
    THEN Res([w EXCEPT !.isCalibrating = FALSE],
             progress \o Rep("CAL_COMPLETE", 6)
                      \o (IF q.system < 2 THEN Rep("CAL_SUGGEST", 2)
                                          ELSE <<>>))
    ELSE Res(w, progress \o (IF UMod(currentMillis, 3000) = 0
                             THEN << Line("KEEP_FIGURE_8") >>
                             ELSE <<>>))

\* calMag with the timeout of line 155 left out
C27_MutCalMag(w, currentMillis, q, progress) ==
    IF q.mag >= CalThreshold
    THEN Res([w EXCEPT !.isCalibrating = FALSE],
             progress \o Rep("CAL_COMPLETE", 6)
                      \o (IF q.system < 2 THEN Rep("CAL_SUGGEST", 2)
                                          ELSE <<>>))
    ELSE Res(w, progress \o (IF UMod(currentMillis, 3000) = 0
                             THEN << Line("KEEP_FIGURE_8") >>
                             ELSE <<>>))

\* handleCalibration, case 2 (lines 154-172): the magnetometer phase
calMag(w, currentMillis, q, progress) ==
    IF q.mag >= CalThreshold
       \/ MsSub(currentMillis, w.calTimer) > MagTimeoutMs
    THEN Res([w EXCEPT !.isCalibrating = FALSE],
             progress \o Rep("CAL_COMPLETE", 6)
                      \o (IF q.system < 2 THEN Rep("CAL_SUGGEST", 2)
                                          ELSE <<>>))
    ELSE Res(w, progress \o (IF UMod(currentMillis, 3000) = 0
                             THEN << Line("KEEP_FIGURE_8") >>
                             ELSE <<>>))

\* handleCalibration at time t with the calibration reading q: lines 99-174
handleCalibration(w, t, q) ==
    LET currentMillis == millis(t)
        progress == IF UMod(currentMillis, 2000) = 0
                    THEN << LineVals("PROGRESS", << q.system, q.gyro, q.accel, q.mag >>) >>
                    ELSE <<>>
    IN  IF w.calStep = 0 THEN calGyro(w, currentMillis, q, progress)
        ELSE IF w.calStep = 1 THEN calAccel(w, currentMillis, q, progress)
        ELSE IF w.calStep = 2 THEN calMag(w, currentMillis, q, progress)
        ELSE Res(w, progress)

\* telemetry that picks the format of the other mode (lines 90-94 swapped)
C16_MutTelemetry(w, cm, o, m) ==
    IF ~w.isPaused
    THEN IF USub(cm, w.previousMicros)
              >= (IF w.isVHITMode THEN vhitInterval ELSE w.interval)
         THEN Res([w EXCEPT !.previousMicros = cm],
                  IF w.isVHITMode THEN readAndSendEulerData(w, o)
                                  ELSE readAndSendVHITData(m))
         ELSE Res(w, <<>>)
    ELSE Res(w, <<>>)

\* telemetry with the pause test of line 87 left out
C1_MutTelemetry(w, cm, o, m) ==
    IF USub(cm, w.previousMicros)
         >= (IF w.isVHITMode THEN vhitInterval ELSE w.interval)
    THEN Res([w EXCEPT !.previousMicros = cm],
             IF w.isVHITMode THEN readAndSendVHITData(m)
                             ELSE readAndSendEulerData(w, o))
    ELSE Res(w, <<>>)

\* the telemetry part of loop() with the drift-free policy: the last
\* emission time advances by one interval
C33_MutTelemetry(w, cm, o, m) ==
    IF ~w.isPaused
    THEN IF USub(cm, w.previousMicros)
              >= (IF w.isVHITMode THEN vhitInterval ELSE w.interval)
         THEN Res([w EXCEPT !.previousMicros =
                       (w.previousMicros
                          + (IF w.isVHITMode THEN vhitInterval ELSE w.interval))
                         % UnitsMod],
                  IF w.isVHITMode THEN readAndSendVHITData(m)
                                  ELSE readAndSendEulerData(w, o))
         ELSE Res(w, <<>>)
    ELSE Res(w, <<>>)

\* the telemetry part of loop(): lines 87-96, with the iteration's
\* currentMicros cm and the sensor readings o (orientation) and m (motion)
telemetry(w, cm, o, m) ==
    IF ~w.isPaused
    THEN IF USub(cm, w.previousMicros)
              >= (IF w.isVHITMode THEN vhitInterval ELSE w.interval)
         THEN Res([w EXCEPT !.previousMicros = cm],
                  IF w.isVHITMode THEN readAndSendVHITData(m)
                                  ELSE readAndSendEulerData(w, o))
         ELSE Res(w, <<>>)
    ELSE Res(w, <<>>)

\* the second half of loop() with a wizard that waits while the sensor is
\* paused
C31_MutSchedule(w, cm, t, q, o, m) ==
    IF w.isCalibrating /\ ~w.isPaused
    THEN handleCalibration(w, t, q)
    ELSE telemetry(w, cm, o, m)

\* the second half of loop(): lines 84-96
schedule(w, cm, t, q, o, m) ==
    IF w.isCalibrating
    THEN handleCalibration(w, t, q)
    ELSE telemetry(w, cm, o, m)

\* serialEvent with the bytes b available on the port: lines 280-289
RECURSIVE serialEvent(_, _)
serialEvent(st, b) ==
    IF b = <<>> THEN st
    ELSE IF isTerminator(Head(b))
         THEN serialEvent([st EXCEPT !.stringComplete = TRUE], Tail(b))
         ELSE serialEvent([st EXCEPT !.inputString = Append(st.inputString, Head(b))],
                          Tail(b))

\* loop() with the wizard/telemetry check ahead of the command
C5_MutLoopOrder == << "schedule", "command" >>

\* the order of the two parts of loop(): lines 78-82, then lines 84-96
loopOrder == << "command", "schedule" >>

\* the first half of loop(): lines 78-82, with st = [inputString, stringComplete]
loopCommand(w, st, t, o) ==
    IF st.stringComplete
    THEN LET r == processCommand(w, st.inputString, t, o)
         IN  [dev |-> r.dev, lines |-> r.lines,
              st |-> [inputString |-> <<>>, stringComplete |-> FALSE]]
    ELSE [dev |-> w, lines |-> <<>>, st |-> st]

\* ------------------------------------------------------------------------
\* ESP firmware (part_000)
\* ------------------------------------------------------------------------

MAX_COMMAND_LENGTH == 32

IMU_SAMPLE_RATE_HZ == 50

IMU_SAMPLE_INTERVAL_MS == 1000 \div IMU_SAMPLE_RATE_HZ

\* command strings of processCommand and handleLedCommand
ePING == <<"P", "I", "N", "G">>

eSTATUS == <<"S", "T", "A", "T", "U", "S">>

eVERSION == <<"V", "E", "R", "S", "I", "O", "N">>

eRESET == <<"R", "E", "S", "E", "T">>

eLED_ON_ == <<"L", "E", "D", "_", "O", "N", ":">>

eLED_OFF_ == <<"L", "E", "D", "_", "O", "F", "F", ":">>

eIMU_READ_ONE == <<"I", "M", "U", "_", "R", "E", "A", "D", "_", "O", "N", "E">>

eIMU_READ_LIVE_ON ==
    <<"I", "M", "U", "_", "R", "E", "A", "D", "_", "L", "I", "V", "E", "_", "O", "N">>

eIMU_READ_LIVE_OFF ==
    <<"I", "M", "U", "_", "R", "E", "A", "D", "_", "L", "I", "V", "E", "_", "O", "F", "F">>

eIMU_CALIBRATE == <<"I", "M", "U", "_", "C", "A", "L", "I", "B", "R", "A", "T", "E">>

eESPNOW_ON == <<"E", "S", "P", "N", "O", "W", "_", "O", "N">>

eESPNOW_OFF == <<"E", "S", "P", "N", "O", "W", "_", "O", "F", "F">>

eESPNOW_PAIR_ == <<"E", "S", "P", "N", "O", "W", "_", "P", "A", "I", "R", ":">>

eESPNOW_STATUS == <<"E", "S", "P", "N", "O", "W", "_", "S", "T", "A", "T", "U", "S">>

eGADGET_SEND_ == <<"G", "A", "D", "G", "E", "T", "_", "S", "E", "N", "D", ":">>

eOTA_START_ == <<"O", "T", "A", "_", "S", "T", "A", "R", "T", ":">>

eOTA_STOP == <<"O", "T", "A", "_", "S", "T", "O", "P">>

tLEFT == <<"L", "E", "F", "T">>

tRIGHT == <<"R", "I", "G", "H", "T">>

tBOTH == <<"B", "O", "T", "H">>

\* the device state of the esp firmware as one record
EDev ==
    [ leftLedState |-> leftLedState, rightLedState |-> rightLedState,
      pin12 |-> pin12, pin14 |-> pin14,
      imuInitialized |-> imuInitialized, imuLiveMode |-> imuLiveMode,
      lastIMURead |-> lastIMURead,
      espnowEnabled |-> espnowEnabled, otaEnabled |-> otaEnabled ]

\* a handler's result: the new device state, the lines it printed, the time
\* it blocked (ms) and whether it restarted the chip
ERes(e, lines, dt, restart) ==
    [dev |-> e, lines |-> lines, dt |-> dt, restart |-> restart]

\* blinkLED without lines 1189-1190: the pins stay at the levels the last
\* pass of the loop wrote (left LOW, right HIGH)
C22_MutBlinkLED(e, times, delayMs) ==
    ERes([e EXCEPT !.pin12 = FALSE, !.pin14 = TRUE], <<>>, 2 * times * delayMs, FALSE)

\* blinkLED: the pins end at the levels read at entry; blocks 2 * times * delayMs
blinkLED(e, times, delayMs) ==
    LET originalStateL == e.pin12
        originalStateR == e.pin14
    IN  ERes([e EXCEPT !.pin12 = originalStateL, !.pin14 = originalStateR],
             <<>>, 2 * times * delayMs, FALSE)

handlePingCommand(e) ==
    LET b == blinkLED(e, 1, 100)
    IN  ERes(b.dev, << Line("SIEV_ESP_OK") >>, b.dt, FALSE)

handleStatusCommand(e) == ERes(e, << Line("STATUS") >>, 0, FALSE)

handleVersionCommand(e) == ERes(e, << Line("VERSION") >>, 0, FALSE)

handleResetCommand(e) ==
    LET b == blinkLED(e, 5, 100)
    IN  ERes(b.dev, << Line("RESET_OK") >>, 100 + b.dt, TRUE)

\* handleLedCommand that takes every target it does not know for BOTH
C37_MutHandleLedCommand(e, command, turnOn) ==
    LET colonIndex == indexOf(command, ":")
        target == substring(command, colonIndex + 1)
        action == IF turnOn THEN "LED_ON" ELSE "LED_OFF"
    IN  IF colonIndex = -1 THEN ERes(e, << Line("ERROR:INVALID_LED_COMMAND") >>, 0, FALSE)
        ELSE IF target = tLEFT
            THEN ERes([e EXCEPT !.pin12 = ~turnOn, !.leftLedState = turnOn],
                      << LineTxt(action, tLEFT) >>, 0, FALSE)
        ELSE IF target = tRIGHT
            THEN ERes([e EXCEPT !.pin14 = ~turnOn, !.rightLedState = turnOn],
                      << LineTxt(action, tRIGHT) >>, 0, FALSE)
        ELSE ERes([e EXCEPT !.pin12 = ~turnOn, !.pin14 = ~turnOn,
                            !.leftLedState = turnOn, !.rightLedState = turnOn],
                  << LineTxt("ERROR:INVALID_LED_TARGET", target) >>, 0, FALSE)

\* handleLedCommand: digitalWrite LOW (FALSE) switches the LED on
handleLedCommand(e, command, turnOn) ==
    LET colonIndex == indexOf(command, ":")
        target == substring(command, colonIndex + 1)
        action == IF turnOn THEN "LED_ON" ELSE "LED_OFF"
    IN  IF colonIndex = -1 THEN ERes(e, << Line("ERROR:INVALID_LED_COMMAND") >>, 0, FALSE)
        ELSE IF target = tLEFT
            THEN ERes([e EXCEPT !.pin12 = ~turnOn, !.leftLedState = turnOn],
                      << LineTxt(action, tLEFT) >>, 0, FALSE)
        ELSE IF target = tRIGHT
            THEN ERes([e EXCEPT !.pin14 = ~turnOn, !.rightLedState = turnOn],
                      << LineTxt(action, tRIGHT) >>, 0, FALSE)
        ELSE IF target = tBOTH
            THEN ERes([e EXCEPT !.pin12 = ~turnOn, !.pin14 = ~turnOn,
                                !.leftLedState = turnOn, !.rightLedState = turnOn],
                      << LineTxt(action, tBOTH) >>, 0, FALSE)
        ELSE ERes(e, << LineTxt("ERROR:INVALID_LED_TARGET", target) >>, 0, FALSE)

\* BNO055Sensor::getCalibrationStatus: the STATUS label of the levels q
calibrationLabel(q) ==
    IF q.system >= 3 /\ q.gyro >= 3 /\ q.accel >= 3 /\ q.mag >= 3
    THEN "FULLY_CALIBRATED"
    ELSE IF q.system >= 2 \/ q.gyro >= 2 \/ q.accel >= 2 \/ q.mag >= 2
    THEN "PARTIAL"
    ELSE IF q.system >= 1 \/ q.gyro >= 1 \/ q.accel >= 1 \/ q.mag >= 1
    THEN "GOOD"
    ELSE "UNCALIBRATED"

\* env is what the sensor and the radio answer during the call:
\* [connected, readOk, cal, radioOk]
handleIMUReadOne(e, env) ==
    IF ~e.imuInitialized THEN ERes(e, << Line("ERROR:IMU_NOT_INITIALIZED") >>, 0, FALSE)
    ELSE IF ~env.connected THEN ERes(e, << Line("ERROR:IMU_NOT_CONNECTED") >>, 0, FALSE)
    ELSE IF ~env.readOk THEN ERes(e, << Line("ERROR:IMU_READ_FAILED") >>, 0, FALSE)
    ELSE ERes(e, << Line("IMU") >>, 0, FALSE)

\* handleIMULiveOn with the test of lines 641-644 left out
C13_MutHandleIMULiveOn(e, t) ==
    IF ~e.imuInitialized THEN ERes(e, << Line("ERROR:IMU_NOT_INITIALIZED") >>, 0, FALSE)
    ELSE ERes([e EXCEPT !.imuLiveMode = TRUE, !.lastIMURead = millis(t)],
              << LineNum("IMU_LIVE:STARTED", IMU_SAMPLE_RATE_HZ) >>, 0, FALSE)

\* handleIMULiveOn with the assignment of line 647 left out
C38_MutHandleIMULiveOn(e, t) ==
    IF ~e.imuInitialized THEN ERes(e, << Line("ERROR:IMU_NOT_INITIALIZED") >>, 0, FALSE)
    ELSE IF e.imuLiveMode THEN ERes(e, << Line("ERROR:IMU_LIVE_ALREADY_ON") >>, 0, FALSE)
    ELSE ERes([e EXCEPT !.imuLiveMode = TRUE],
              << LineNum("IMU_LIVE:STARTED", IMU_SAMPLE_RATE_HZ) >>, 0, FALSE)

\* handleIMULiveOn with the test of lines 636-639 left out
C39_MutHandleIMULiveOn(e, t) ==
    IF e.imuLiveMode THEN ERes(e, << Line("ERROR:IMU_LIVE_ALREADY_ON") >>, 0, FALSE)
    ELSE ERes([e EXCEPT !.imuLiveMode = TRUE, !.lastIMURead = millis(t)],
              << LineNum("IMU_LIVE:STARTED", IMU_SAMPLE_RATE_HZ) >>, 0, FALSE)

\* handleIMULiveOn at time t: lines 635-650
handleIMULiveOn(e, t) ==
    IF ~e.imuInitialized THEN ERes(e, << Line("ERROR:IMU_NOT_INITIALIZED") >>, 0, FALSE)
    ELSE IF e.imuLiveMode THEN ERes(e, << Line("ERROR:IMU_LIVE_ALREADY_ON") >>, 0, FALSE)
    ELSE ERes([e EXCEPT !.imuLiveMode = TRUE, !.lastIMURead = millis(t)],
              << LineNum("IMU_LIVE:STARTED", IMU_SAMPLE_RATE_HZ) >>, 0, FALSE)

handleIMULiveOff(e) ==
    IF ~e.imuLiveMode THEN ERes(e, << Line("ERROR:IMU_LIVE_NOT_ACTIVE") >>, 0, FALSE)
    ELSE ERes([e EXCEPT !.imuLiveMode = FALSE], << Line("IMU_LIVE:STOPPED") >>, 0, FALSE)

handleIMUCalibrate(e, env) ==
    IF ~e.imuInitialized THEN ERes(e, << Line("ERROR:IMU_NOT_INITIALIZED") >>, 0, FALSE)
    ELSE ERes(e, << [tag |-> "CALIBRATE", num |-> 0,
                     vals |-> << env.cal.system, env.cal.gyro, env.cal.accel, env.cal.mag >>,
                     txt |-> << calibrationLabel(env.cal) >>] >>, 0, FALSE)

\* handleESPNowOn with startESPNow; env.radioOk is the result of esp_now_init
handleESPNowOn(e, env) ==
    IF e.espnowEnabled THEN ERes(e, << Line("ESPNOW:ON") >>, 0, FALSE)
    ELSE IF ~env.radioOk
    THEN ERes(e, << Line("ERROR:ESPNOW_INIT_FAILED"), Line("ERROR:ESPNOW_START_FAILED") >>,
              0, FALSE)
    ELSE ERes([e EXCEPT !.espnowEnabled = TRUE],
              << Line("DEBUG:ESPNOW_STARTED"), Line("ESPNOW:ON") >>, 0, FALSE)

\* handleESPNowOff with stopESPNow
handleESPNowOff(e) ==
    IF ~e.espnowEnabled THEN ERes(e, << Line("ESPNOW:OFF") >>, 0, FALSE)
    ELSE ERes([e EXCEPT !.espnowEnabled = FALSE],
              << Line("DEBUG:ESPNOW_STOPPED"), Line("ESPNOW:OFF") >>, 0, FALSE)

\* handleESPNowPair: the MAC parser and the peer list are outside src/,
\* env.radioOk stands for their joint success
handleESPNowPair(e, command, env) ==
    IF ~e.espnowEnabled THEN ERes(e, << Line("ERROR:ESPNOW_NOT_ENABLED") >>, 0, FALSE)
    ELSE IF indexOf(command, ":") = -1
    THEN ERes(e, << Line("ERROR:INVALID_MAC_FORMAT") >>, 0, FALSE)
    ELSE IF ~env.radioOk THEN ERes(e, << Line("ERROR:INVALID_MAC_ADDRESS") >>, 0, FALSE)
    ELSE ERes(e, << LineTxt("ESPNOW_PAIRED", substring(command, indexOf(command, ":") + 1)) >>,
              0, FALSE)

handleESPNowStatus(e) == ERes(e, << Line("ESPNOW_STATUS") >>, 0, FALSE)

\* 0-based index of the first ch at or after position from, -1 if none
indexOfFrom(s, ch, from) ==
    LET i == indexOf(substring(s, from), ch)
    IN  IF i = -1 THEN -1 ELSE i + from

\* String::substring(from, to) with 0-based indices, to exclusive
substring2(s, from, to) == SubSeq(s, from + 1, to)

handleGadgetSend(e, command, env) ==
    LET firstColon == indexOf(command, ":")
        secondColon == indexOfFrom(command, ":", firstColon + 1)
    IN  IF ~e.espnowEnabled THEN ERes(e, << Line("ERROR:ESPNOW_NOT_ENABLED") >>, 0, FALSE)
        ELSE IF firstColon = -1 \/ secondColon = -1
        THEN ERes(e, << Line("ERROR:INVALID_GADGET_SEND_FORMAT") >>, 0, FALSE)
        ELSE IF ~env.radioOk THEN ERes(e, << Line("ERROR:INVALID_MAC_ADDRESS") >>, 0, FALSE)
        ELSE ERes(e, << LineTxt("GADGET_SENT",
                                substring2(command, firstColon + 1, secondColon)) >>,
                  0, FALSE)

\* startOTA: waits for the WiFi connection in steps of 500 ms, 10 s at most;
\* env.radioOk says whether the connection comes up (after the first wait);
\* the txt field of the last line records the credentials WiFi.begin was
\* called with (line 1117)
startOTA(e, ssid, password, env) ==
    IF e.otaEnabled THEN ERes(e, << Line("ERROR:OTA_ALREADY_ENABLED") >>, 0, FALSE)
    ELSE IF ~env.radioOk
    THEN ERes(e, << Line("OTA:CONNECTING_WIFI"),
                    Line("ERROR:OTA_WIFI_CONNECTION_FAILED") >>, 10000, FALSE)
    ELSE ERes([e EXCEPT !.otaEnabled = TRUE],
              << Line("OTA:CONNECTING_WIFI"), Line(""),
                 Line("OTA:WIFI_CONNECTED"),
                 [tag |-> "OTA:ENABLED", num |-> 0, vals |-> <<>>,
                  txt |-> ssid \o <<":">> \o password] >>, 500, FALSE)

handleOTAStart(e, command, env) ==
    LET firstColon == indexOf(command, ":")
        secondColon == indexOfFrom(command, ":", firstColon + 1)
    IN  IF firstColon = -1 \/ secondColon = -1
        THEN ERes(e, << Line("ERROR:INVALID_OTA_FORMAT") >>, 0, FALSE)
        ELSE startOTA(e, substring2(command, firstColon + 1, secondColon),
                      substring(command, secondColon + 1), env)

\* handleOTAStop with stopOTA
handleOTAStop(e) ==
    IF ~e.otaEnabled THEN ERes(e, <<>>, 0, FALSE)
    ELSE ERes([e EXCEPT !.otaEnabled = FALSE], << Line("OTA:DISABLED") >>, 0, FALSE)

\* processCommand of the esp firmware, called at time t
espProcessCommand(e, raw, t, env) ==
    LET command == toUpperCase(trim(raw))
    IN  IF command = ePING THEN handlePingCommand(e)
        ELSE IF command = eSTATUS THEN handleStatusCommand(e)
        ELSE IF command = eVERSION THEN handleVersionCommand(e)
        ELSE IF command = eRESET THEN handleResetCommand(e)
        ELSE IF startsWith(command, eLED_ON_) THEN handleLedCommand(e, command, TRUE)
        ELSE IF startsWith(command, eLED_OFF_) THEN handleLedCommand(e, command, FALSE)
        ELSE IF command = eIMU_READ_ONE THEN handleIMUReadOne(e, env)
        ELSE IF command = eIMU_READ_LIVE_ON THEN handleIMULiveOn(e, t)
        ELSE IF command = eIMU_READ_LIVE_OFF THEN handleIMULiveOff(e)
        ELSE IF command = eIMU_CALIBRATE THEN handleIMUCalibrate(e, env)
        ELSE IF command = eESPNOW_ON THEN handleESPNowOn(e, env)
        ELSE IF command = eESPNOW_OFF THEN handleESPNowOff(e)
        ELSE IF startsWith(command, eESPNOW_PAIR_) THEN handleESPNowPair(e, command, env)
        ELSE IF command = eESPNOW_STATUS THEN handleESPNowStatus(e)
        ELSE IF startsWith(command, eGADGET_SEND_) THEN handleGadgetSend(e, command, env)
        ELSE IF startsWith(command, eOTA_START_) THEN handleOTAStart(e, command, env)
        ELSE IF command = eOTA_STOP THEN handleOTAStop(e)
        ELSE IF Len(command) > 0
            THEN ERes(e, << LineTxt("ERROR:UNKNOWN_COMMAND", command) >>, 0, FALSE)
        ELSE ERes(e, <<>>, 0, FALSE)

\* one pass of the while loop of processSerialCommands on the character c;
\* a = [dev, buf, lines, dt, restart], t the time the function was entered
serialChar(a, c, t, env) ==
    IF isTerminator(c)
    THEN IF Len(a.buf) > 0
         THEN LET r == espProcessCommand(a.dev, a.buf, t + a.dt, env)
              IN  [dev |-> r.dev, buf |-> <<>>, lines |-> a.lines \o r.lines,
                   dt |-> a.dt + r.dt, restart |-> r.restart]
         ELSE a
    ELSE IF Len(a.buf) < MAX_COMMAND_LENGTH - 1
         THEN [a EXCEPT !.buf = Append(a.buf, c)]
         ELSE [a EXCEPT !.buf = <<>>,
                        !.lines = Append(a.lines, Line("ERROR:COMMAND_TOO_LONG"))]

\* processSerialCommands on the bytes b the port holds; a restart ends it
RECURSIVE processSerialCommands(_, _, _, _)
processSerialCommands(a, b, t, env) ==
    IF b = <<>> \/ a.restart THEN a
    ELSE processSerialCommands(serialChar(a, Head(b), t, env), Tail(b), t, env)

\* processIMULiveStream that reports a disconnected sensor and goes on
\* streaming (line 817 left out)
C14_MutProcessIMULiveStream(e, t, env) ==
    LET currentTime == millis(t)
    IN  IF MsSub(currentTime, e.lastIMURead) >= IMU_SAMPLE_INTERVAL_MS
        THEN IF ~env.connected
             THEN ERes([e EXCEPT !.lastIMURead = currentTime],
                       << Line("ERROR:IMU_DISCONNECTED") >>, 0, FALSE)
             ELSE IF ~env.readOk
             THEN ERes([e EXCEPT !.lastIMURead = currentTime],
                       << Line("ERROR:IMU_LIVE_READ_FAILED") >>, 0, FALSE)
             ELSE ERes([e EXCEPT !.lastIMURead = currentTime],
                       << LineNum("LIVE", currentTime) >>, 0, FALSE)
        ELSE ERes(e, <<>>, 0, FALSE)

\* processIMULiveStream that stops the stream on a failed read as well
C32_MutProcessIMULiveStream(e, t, env) ==
    LET currentTime == millis(t)
    IN  IF MsSub(currentTime, e.lastIMURead) >= IMU_SAMPLE_INTERVAL_MS
        THEN IF ~env.connected
             THEN ERes([e EXCEPT !.lastIMURead = currentTime, !.imuLiveMode = FALSE],
                       << Line("ERROR:IMU_DISCONNECTED") >>, 0, FALSE)
             ELSE IF ~env.readOk
             THEN ERes([e EXCEPT !.lastIMURead = currentTime, !.imuLiveMode = FALSE],
                       << Line("ERROR:IMU_LIVE_READ_FAILED") >>, 0, FALSE)
             ELSE ERes([e EXCEPT !.lastIMURead = currentTime],
                       << LineNum("LIVE", currentTime) >>, 0, FALSE)
        ELSE ERes(e, <<>>, 0, FALSE)

\* processIMULiveStream at time t
processIMULiveStream(e, t, env) ==
    LET currentTime == millis(t)
    IN  IF MsSub(currentTime, e.lastIMURead) >= IMU_SAMPLE_INTERVAL_MS
        THEN IF ~env.connected
             THEN ERes([e EXCEPT !.lastIMURead = currentTime, !.imuLiveMode = FALSE],
                       << Line("ERROR:IMU_DISCONNECTED") >>, 0, FALSE)
             ELSE IF ~env.readOk
             THEN ERes([e EXCEPT !.lastIMURead = currentTime],
                       << Line("ERROR:IMU_LIVE_READ_FAILED") >>, 0, FALSE)
             ELSE ERes([e EXCEPT !.lastIMURead = currentTime],
                       << LineNum("LIVE", currentTime) >>, 0, FALSE)
        ELSE ERes(e, <<>>, 0, FALSE)

\* the rest of loop() after processSerialCommands: lines 383-392
espStream(e, t, env) ==
    IF e.imuLiveMode /\ e.imuInitialized
    THEN processIMULiveStream(e, t, env)
    ELSE ERes(e, <<>>, 0, FALSE)

\* the order of the parts of loop(): line 380, then lines 383-392
espLoopOrder == << "serial", "stream" >>

\* ------------------------------------------------------------------------
\* Inputs and bounds
\* ------------------------------------------------------------------------

\* the longest time between two iterations of the wizard loop() (ms)
MaxStepW == 11000

\* time that passes between two reads of the clock at the top of loop() (ms)
WizardSteps == {MaxStepW}

\* the time setup() takes: sensor start plus the 800 ms of startupSequence
WizardBootMs == 1000

\* the model stops the clock here
MaxTimeW == 45000

\* the model stops the wizard clock here when it follows calibration sessions
MaxTimeCal == 100000

nl == << "\n" >>

\* what the host sends to the wizard firmware: the commands that drive the
\* scheduler and the wizard
CoreLines ==
    { sPAUSE \o nl, sCAL \o nl, MODE_EULER \o nl, MODE_VHIT \o nl,
      sDELAY_ \o <<"1", "5", "0", "0", "0">> \o nl,
      sDELAY_ \o <<"0">> \o nl }

\* every command, and lines that are no command
CmdLines ==
    CoreLines \cup
    { sDELAY_ \o <<"x">> \o nl,
      sDELAY_ \o <<"-", "5">> \o nl,
      sDELAY_ \o <<"4", "2", "9", "4", "9", "6", "8">> \o nl,
      L_12_ON \o nl, L_12_OFF \o nl, L_14_ON \o nl, L_14_OFF \o nl,
      sZERO \o nl, sHELP \o nl,
      <<"p", "a", "u", "s", "e">> \o nl,
      sPAUSE \o << "\r", "\n" >>,
      sPAUSE \o nl \o MODE_VHIT \o nl,
      nl }

\* what the host sends during a calibration session
CalLines == { sCAL \o nl, sPAUSE \o nl }

\* sensor readings
Orientations == { <<350, -45, 10>>, <<10, 20, -30>> }

\* orientation readings at and across the ends of the angle range
AngleReadings ==
    { <<180, 0, 0>>, <<350, -45, 10>>, <<10, 20, -30>>, <<0, 90, -180>> }

Motions == { <<0, 0, 10, 1, 0, 0>> }

CalReading(s, g, a, m) == [system |-> s, gyro |-> g, accel |-> a, mag |-> m]

CalReadings ==
    { CalReading(0, 1, 1, 1), CalReading(1, 2, 1, 1), CalReading(1, 1, 2, 0),
      CalReading(2, 0, 1, 2), CalReading(3, 3, 3, 3) }

\* time that passes between two iterations of the esp loop() (ms)
EspSteps == {10}

\* the time setup() of the esp firmware takes
EspBootMs == 2300

\* the model stops the esp clock here
MaxTimeE == 2400

\* the documented command timeout, in ms ("Timeout por comando: 2 segundos")
CommandTimeoutMs == 2000

\* the timeout constant of the esp firmware, in ms
COMMAND_TIMEOUT == 5000

\* a pause of the host in the middle of a line, longer than both timeouts,
\* and the time the esp firmware is followed through such pauses
PauseStepMs == 6000
MaxTimeP == 15000

\* the most characters the host leaves pending without a terminator
MaxPartialLen == 16

\* a line the host sends in two pieces
PartialLinesW == { << "P", "A", "U" >>, << "S", "E" >> \o nl, sPAUSE \o nl }
PartialLinesE == { << "L", "E", "D", "_" >>,
                   << "O", "N", ":", "L", "E", "F", "T" >> \o nl,
                   eLED_ON_ \o tLEFT \o nl }

\* the idle delay at the end of loop() of the esp firmware, in ms
IdleDelayMs == 1

\* the model stops the esp clock here when it follows blocking handlers: the
\* longest wait of startOTA and the waits of handleResetCommand after boot
MaxTimeB == 13400

\* commands of the esp firmware whose handlers wait, and one that does not
OtaArgs == <<"N", ":", "P">>

BlockLines ==
    { ePING \o nl, eRESET \o nl, eOTA_START_ \o OtaArgs \o nl, eSTATUS \o nl }

\* the model stops the esp clock here when it follows the LED outputs: the
\* waits of handleResetCommand after boot
MaxTimeL == 3400

\* the LED commands and commands of every other group
LedLines ==
    { eLED_ON_ \o tLEFT \o nl, eLED_OFF_ \o tLEFT \o nl,
      eLED_ON_ \o tRIGHT \o nl, eLED_OFF_ \o tRIGHT \o nl,
      eLED_ON_ \o tBOTH \o nl, eLED_OFF_ \o tBOTH \o nl,
      eLED_ON_ \o <<"X", "Y", "Z">> \o nl,
      ePING \o nl, eRESET \o nl, eSTATUS \o nl, eIMU_READ_ONE \o nl,
      eESPNOW_ON \o nl, eOTA_START_ \o OtaArgs \o nl, eOTA_STOP \o nl,
      <<"F", "O", "O">> \o nl }

\* the highest calibration level the sensor reports ("(0-3)")
MaxLevel == 3

\* the documented order of the overall labels, lowest first
LabelScale == << "UNCALIBRATED", "PARTIAL", "GOOD", "FULLY_CALIBRATED" >>

labelRank(l) == CHOOSE i \in 1..Len(LabelScale) : LabelScale[i] = l

\* time between two iterations of the wizard loop() when the gyroscope phase
\* is followed: half the settle time, so that an iteration falls on it
GyroStepMs == 1500

\* the model stops the wizard clock here when it follows the gyroscope phase
MaxTimeG == 10000

\* time between two iterations of the wizard loop() when the accelerometer
\* and magnetometer phases are followed: a divisor of both timeouts, so that
\* an iteration falls on each of them
PhaseStepMs == 5000

\* the model stops the wizard clock here when it follows these phases
MaxTimeF == 70000

\* the longest time a session may go without a progress report, in ms
ProgressWindowMs == 3000

\* the time between two iterations of the wizard firmware where several
\* iterations fall in one sample interval, and the end of its run
CadenceStepMs == 40

MaxTimeC == 1400

\* the commands that change the active interval or hold the telemetry
CadenceLines ==
    { sPAUSE \o nl, MODE_EULER \o nl, MODE_VHIT \o nl,
      sDELAY_ \o <<"5", "0">> \o nl }

\* DELAY_ commands: an ordinary one, one whose product wraps to a small
\* value, one whose product is a multiple of 2^32 (536870912 = 2^29), and
\* rejected ones
DelayLines ==
    { sDELAY_ \o <<"5", "0">> \o nl,
      sDELAY_ \o <<"4", "2", "9", "4", "9", "6", "8">> \o nl,
      sDELAY_ \o <<"5", "3", "6", "8", "7", "0", "9", "1", "2">> \o nl,
      sDELAY_ \o <<"0">> \o nl,
      sDELAY_ \o <<"-", "5">> \o nl,
      MODE_VHIT \o nl, MODE_EULER \o nl }

\* commands of the esp firmware whose arguments are free text, with
\* arguments in lower case and in upper case
CaseLines ==
    { eOTA_START_ \o <<"n", ":", "p">> \o nl,
      eOTA_START_ \o OtaArgs \o nl,
      <<"o", "t", "a", "_", "s", "t", "a", "r", "t", ":", "n", ":", "P">> \o nl,
      eOTA_STOP \o nl,
      eESPNOW_ON \o nl,
      eGADGET_SEND_ \o <<"a", "b", ":", "x">> \o nl }

\* the counters overflow at time 0: how long before that the model takes up
\* the wizard firmware and the esp firmware, the time between two iterations
\* of the wizard firmware, and the end of the run of each
WrapLeadW == 3000

WrapLeadE == 100

WrapStepMs == 1000

MaxTimeWrapW == 2000

MaxTimeWrapE == 100

\* what the host sends to the wizard firmware around the overflow
WrapLines ==
    { sCAL \o nl, MODE_VHIT \o nl,
      sDELAY_ \o <<"1", "5", "0", "0">> \o nl }

\* n times the character c
Pad(c, n) == [i \in 1..n |-> c]

\* what the host sends to the esp firmware: stream and LED commands
EspCoreLines ==
    { eIMU_READ_LIVE_ON \o nl, eIMU_READ_LIVE_OFF \o nl,
      eLED_ON_ \o tLEFT \o nl, eLED_OFF_ \o tLEFT \o nl,
      eLED_ON_ \o tRIGHT \o nl, eLED_OFF_ \o tBOTH \o nl,
      eLED_ON_ \o <<"X", "Y", "Z">> \o nl, eLED_OFF_ \o nl,
      <<"l", "e", "d", "_", "o", "n", ":", "l", "e", "f", "t">> \o << "\r", "\n" >>,
      <<"F", "O", "O">> \o nl }

\* lines around the maximum command length: a command padded with blanks to
\* 31 and to 32 characters, 31, 32 and 33 letters, and 40 letters that no
\* terminator follows
EspLongLines ==
    { eSTATUS \o Pad(" ", 25) \o nl, eSTATUS \o Pad(" ", 26) \o nl,
      Pad("X", 31) \o nl, Pad("X", 32) \o nl, Pad("X", 33) \o nl,
      Pad("X", 40) }

\* two complete lines in one burst, and a terminator alone
EspBurstLines ==
    { <<"F", "O", "O">> \o nl \o <<"B", "A", "R">> \o nl,
      eLED_ON_ \o tLEFT \o nl \o eLED_OFF_ \o tRIGHT \o nl,
      nl }

EspLines == EspCoreLines \cup EspLongLines \cup EspBurstLines

\* what the sensor and the radio answer during one call
EspEnv(c, r, q, w) == [connected |-> c, readOk |-> r, cal |-> q, radioOk |-> w]

EspEnvs ==
    { EspEnv(TRUE, TRUE, CalReading(1, 2, 1, 1), TRUE),
      EspEnv(FALSE, FALSE, CalReading(0, 0, 0, 0), FALSE),
      EspEnv(TRUE, FALSE, CalReading(3, 3, 3, 3), TRUE) }

\* a connected sensor that reports any tuple of calibration levels
CalibEnvs ==
    { EspEnv(TRUE, TRUE, CalReading(s, g, a, m), TRUE) :
        s \in 0..MaxLevel, g \in 0..MaxLevel, a \in 0..MaxLevel, m \in 0..MaxLevel }

\* ------------------------------------------------------------------------
\* State machine
\* ------------------------------------------------------------------------

Init ==
    /\ variant \in {"wizard", "esp"}
    /\ pc = "setup"
    /\ ip = 0
    /\ now = 0
    /\ out = <<>>
    /\ inputString = <<>>
    /\ stringComplete = FALSE
    /\ previousMicros = 0
    /\ interval = units(DefaultIntervalUs)
    /\ isPaused = FALSE
    /\ isCalibrating = FALSE
    /\ isVHITMode = FALSE
    /\ offsetYaw = 0
    /\ offsetPitch = 0
    /\ offsetRoll = 0
    /\ calTimer = 0
    /\ calStep = 0
    /\ pin12 = FALSE
    /\ pin14 = FALSE
    /\ currentMicros = 0
    /\ rx = <<>>
    /\ inputBuffer = <<>>
    /\ leftLedState = FALSE
    /\ rightLedState = FALSE
    /\ imuInitialized = FALSE
    /\ imuLiveMode = FALSE
    /\ lastIMURead = 0
    /\ espnowEnabled = FALSE
    /\ otaEnabled = FALSE
    /\ calStart = 0
    /\ progressAt = 0

\* assigns the device state of the wizard firmware
WSet(w) ==
    /\ previousMicros' = w.previousMicros
    /\ interval' = w.interval
    /\ isPaused' = w.isPaused
    /\ isCalibrating' = w.isCalibrating
    /\ isVHITMode' = w.isVHITMode
    /\ offsetYaw' = w.offsetYaw
    /\ offsetPitch' = w.offsetPitch
    /\ offsetRoll' = w.offsetRoll
    /\ calTimer' = w.calTimer
    /\ calStep' = w.calStep
    /\ pin12' = w.pin12
    /\ pin14' = w.pin14

\* setup() of the wizard firmware: lines 42-62; begin is the result of bno.begin()
WSetup(begin) ==
    /\ variant = "wizard"
    /\ pc = "setup"
    /\ pin12' = TRUE
    /\ pin14' = TRUE
    /\ IF begin
       THEN /\ pc' = "run"
            /\ now' = now + WizardBootMs
            /\ out' = << Line("READY"), Line("HELP_HINT") >>
       ELSE /\ pc' = "halted"
            /\ now' = now
            /\ out' = << Line("NO_BNO055") >>
    /\ UNCHANGED << variant, ip, inputString, stringComplete, previousMicros,
                    interval, isPaused, isCalibrating, isVHITMode, offsetYaw,
                    offsetPitch, offsetRoll, calTimer, calStep, currentMicros,
                    calStart, progressAt >>
    /\ UNCHANGED espVars

\* serialEvent() is called after loop() returned when bytes are available:
\* b is what the port holds then
WSerialEvent(b) ==
    /\ variant = "wizard"
    /\ pc = "run"
    /\ ip = 0
    /\ ip' = 1
    /\ LET st == serialEvent([inputString |-> inputString,
                              stringComplete |-> stringComplete], b)
       IN  /\ inputString' = st.inputString
           /\ stringComplete' = st.stringComplete
    /\ out' = <<>>
    /\ UNCHANGED << variant, pc, now, previousMicros, interval, isPaused,
                    isCalibrating, isVHITMode, offsetYaw, offsetPitch, offsetRoll,
                    calTimer, calStep, pin12, pin14, currentMicros, calStart,
                    progressAt >>
    /\ UNCHANGED espVars

\* the number of parts of loop() the current iteration has run
partsRun == IF ip = 2 THEN 1 ELSE 0

\* the time at which the part of loop() that runs next runs, d ms after the
\* previous iteration read the clock
WTime(d) == IF partsRun = 0 THEN now + d ELSE now

\* line 76: the clock is read once, at the top of the iteration
WTop(d, T) ==
    /\ partsRun # 0 => d = 0
    /\ now + d <= T
    /\ now' = WTime(d)
    /\ currentMicros' = IF partsRun = 0 THEN micros(WTime(d)) ELSE currentMicros
    /\ ip' = IF partsRun + 1 = Len(loopOrder) THEN 0 ELSE 2

\* loop(), lines 78-82
WLoopCommand(d, o, T) ==
    /\ variant = "wizard"
    /\ pc = "run"
    /\ loopOrder[partsRun + 1] = "command"
    /\ WTop(d, T)
    /\ LET r == loopCommand(WDev, [inputString |-> inputString,
                                   stringComplete |-> stringComplete],
                            WTime(d), o)
       IN  /\ WSet(r.dev)
           /\ out' = r.lines
           /\ inputString' = r.st.inputString
           /\ stringComplete' = r.st.stringComplete
           /\ calStart' = IF countTag(r.lines, "CAL_BANNER") > 0
                          THEN WTime(d) ELSE calStart
           /\ progressAt' = IF countTag(r.lines, "CAL_BANNER") > 0
                            THEN WTime(d) ELSE progressAt
    /\ UNCHANGED << variant, pc >>
    /\ UNCHANGED espVars

\* loop(), lines 84-96
WLoopSchedule(d, q, o, m, T) ==
    /\ variant = "wizard"
    /\ pc = "run"
    /\ loopOrder[partsRun + 1] = "schedule"
    /\ WTop(d, T)
    /\ LET r == schedule(WDev, currentMicros', WTime(d), q, o, m)
       IN  /\ WSet(r.dev)
           /\ out' = r.lines
           /\ calStart' = IF r.dev.isCalibrating THEN calStart ELSE 0
           /\ progressAt' = IF ~r.dev.isCalibrating THEN 0
                            ELSE IF countTag(r.lines, "PROGRESS") > 0
                            THEN WTime(d) ELSE progressAt
    /\ UNCHANGED << variant, pc, inputString, stringComplete >>
    /\ UNCHANGED espVars

\* assigns the device state of the esp firmware
ESet(e) ==
    /\ leftLedState' = e.leftLedState
    /\ rightLedState' = e.rightLedState
    /\ pin12' = e.pin12
    /\ pin14' = e.pin14
    /\ imuInitialized' = e.imuInitialized
    /\ imuLiveMode' = e.imuLiveMode
    /\ lastIMURead' = e.lastIMURead
    /\ espnowEnabled' = e.espnowEnabled
    /\ otaEnabled' = e.otaEnabled

\* setup() with initIMU: part_000:224-268 and 360-375; init is the result of
\* imuSensor->init()
ESetup(init) ==
    /\ variant = "esp"
    /\ pc = "setup"
    /\ pc' = "run"
    /\ now' = now + EspBootMs
    /\ LET b == blinkLED([EDev EXCEPT !.pin12 = TRUE, !.pin14 = TRUE,
                                      !.imuInitialized = init], 3, 200)
       IN  ESet(b.dev)
    /\ out' = << Line(IF init THEN "DEBUG:BNO055_INITIALIZED"
                              ELSE "ERROR:BNO055_INIT_FAILED"),
                 Line("SYSTEM:SIEV_ESP8266_READY"),
                 Line(IF init THEN "DEBUG:IMU_STATUS:OK" ELSE "DEBUG:IMU_STATUS:FAILED"),
                 Line("DEBUG:ESPNOW_STATUS:DISABLED"),
                 Line("DEBUG:OTA_STATUS:DISABLED") >>
    /\ UNCHANGED << variant, ip, rx, inputBuffer >>
    /\ UNCHANGED << inputString, stringComplete, previousMicros, interval,
                    isPaused, isCalibrating, isVHITMode, offsetYaw, offsetPitch,
                    offsetRoll, calTimer, calStep, currentMicros, calStart,
                    progressAt >>

\* the host sends the bytes b; the port is read at the top of loop()
EHostSend(b) ==
    /\ variant = "esp"
    /\ pc = "run"
    /\ ip = 0
    /\ rx = <<>>
    /\ rx' = b
    /\ UNCHANGED << variant, pc, ip, now, out, inputBuffer, leftLedState,
                    rightLedState, pin12, pin14, imuInitialized, imuLiveMode,
                    lastIMURead, espnowEnabled, otaEnabled >>
    /\ UNCHANGED << inputString, stringComplete, previousMicros, interval,
                    isPaused, isCalibrating, isVHITMode, offsetYaw, offsetPitch,
                    offsetRoll, calTimer, calStep, currentMicros, calStart,
                    progressAt >>

\* ESP.restart(): the globals get their initial values again, the clock
\* restarts, the bytes in the port are lost
ERestart ==
    /\ pc' = "setup"
    /\ ip' = 0
    /\ now' = 0
    /\ rx' = <<>>
    /\ inputBuffer' = <<>>
    /\ leftLedState' = FALSE
    /\ rightLedState' = FALSE
    /\ pin12' = FALSE
    /\ pin14' = FALSE
    /\ imuInitialized' = FALSE
    /\ imuLiveMode' = FALSE
    /\ lastIMURead' = 0
    /\ espnowEnabled' = FALSE
    /\ otaEnabled' = FALSE

\* loop(), line 380: processSerialCommands
ELoopSerial(d, env, T) ==
    /\ variant = "esp"
    /\ pc = "run"
    /\ espLoopOrder[partsRun + 1] = "serial"
    /\ partsRun # 0 => d = 0
    /\ LET t == WTime(d)
           a == processSerialCommands(
                    [dev |-> EDev, buf |-> inputBuffer, lines |-> <<>>,
                     dt |-> 0, restart |-> FALSE], rx, t, env)
       IN  /\ t + a.dt <= T
           /\ out' = a.lines
           /\ IF a.restart
              THEN ERestart
              ELSE /\ ESet(a.dev)
                   /\ inputBuffer' = a.buf
                   /\ rx' = <<>>
                   /\ now' = t + a.dt
                   /\ pc' = pc
                   /\ ip' = IF partsRun + 1 = Len(espLoopOrder) THEN 0 ELSE 2
    /\ UNCHANGED variant
    /\ UNCHANGED << inputString, stringComplete, previousMicros, interval,
                    isPaused, isCalibrating, isVHITMode, offsetYaw, offsetPitch,
                    offsetRoll, calTimer, calStep, currentMicros, calStart,
                    progressAt >>

\* loop(), lines 383-392: the live stream, the OTA poll and the idle delay
ELoopStream(d, env, T) ==
    /\ variant = "esp"
    /\ pc = "run"
    /\ espLoopOrder[partsRun + 1] = "stream"
    /\ partsRun # 0 => d = 0
    /\ WTime(d) <= T
    /\ LET r == espStream(EDev, WTime(d), env)
       IN  /\ ESet(r.dev)
           /\ out' = r.lines
    /\ now' = WTime(d)
    /\ ip' = IF partsRun + 1 = Len(espLoopOrder) THEN 0 ELSE 2
    /\ UNCHANGED << variant, pc, rx, inputBuffer >>
    /\ UNCHANGED << inputString, stringComplete, previousMicros, interval,
                    isPaused, isCalibrating, isVHITMode, offsetYaw, offsetPitch,
                    offsetRoll, calTimer, calStep, currentMicros, calStart,
                    progressAt >>

\* the esp firmware with the host sending lines of the set L and the time
\* between two iterations drawn from S, until time T
ENext(L, S, T) ==
    \/ \E init \in BOOLEAN : ESetup(init)
    \/ \E b \in L : EHostSend(b)
    \/ \E d \in S \cup {0}, env \in EspEnvs : ELoopSerial(d, env, T)
    \/ \E d \in S \cup {0}, env \in EspEnvs : ELoopStream(d, env, T)

\* the wizard firmware with the host sending lines of the set L, the time
\* between two iterations drawn from S, until time T, the sensor's
\* orientation drawn from O
WNext(L, S, T, O) ==
    \/ \E begin \in BOOLEAN : WSetup(begin)
    \/ \E b \in L : WSerialEvent(b)
    \/ \E d \in S \cup {0}, o \in O : WLoopCommand(d, o, T)
    \/ \E d \in S \cup {0}, q \in CalReadings, o \in O, m \in Motions :
          WLoopSchedule(d, q, o, m, T)

\* both firmwares over time, the host sending the commands that change what
\* the scheduler does
Next == WNext(CoreLines, WizardSteps, MaxTimeW, Orientations) \/ ENext(EspCoreLines, EspSteps, MaxTimeE)

Spec == Init /\ [][Next]_vars

\* both firmwares with the host sending every line of the input sets, all of
\* it within one clock reading
CommandNext == WNext(CmdLines, {}, MaxTimeW, Orientations) \/ ENext(EspLines, {}, MaxTimeE)

CommandSpec == Init /\ [][CommandNext]_vars

\* the wizard firmware through whole calibration sessions
CalInit == Init /\ variant = "wizard"

CalNext == WNext(CalLines, WizardSteps, MaxTimeCal, Orientations)

CalSpec == CalInit /\ [][CalNext]_vars

\* the wizard firmware with the host sending ZERO and the sensor turned
\* through the readings of AngleReadings
AngleNext == WNext({ sZERO \o nl }, WizardSteps, MaxTimeW, AngleReadings)

AngleSpec == CalInit /\ [][AngleNext]_vars

\* the esp firmware with the host sending the commands whose handlers wait;
\* the idle delay and the run time of code that does not wait count as 0, so
\* that all the time that passes is time a handler waited
BlockInit == Init /\ variant = "esp"

BlockNext == ENext(BlockLines, {}, MaxTimeB)

BlockSpec == BlockInit /\ [][BlockNext]_vars

\* the esp firmware with the host sending LED commands among the others
LedNext == ENext(LedLines, {}, MaxTimeL)

LedSpec == BlockInit /\ [][LedNext]_vars

\* the esp firmware with the host asking for the calibration status and the
\* sensor reporting any levels
CalibNext ==
    \/ \E init \in BOOLEAN : ESetup(init)
    \/ EHostSend(eIMU_CALIBRATE \o nl)
    \/ \E env \in CalibEnvs : ELoopSerial(0, env, MaxTimeE)
    \/ \E env \in CalibEnvs : ELoopStream(0, env, MaxTimeE)

CalibSpec == BlockInit /\ [][CalibNext]_vars

\* the wizard firmware through the gyroscope phase, in steps that fall on
\* the settle time
GyroNext == WNext({ sCAL \o nl }, {GyroStepMs}, MaxTimeG, Orientations)

GyroSpec == CalInit /\ [][GyroNext]_vars

\* the wizard firmware through whole sessions, in steps that fall on the
\* timeouts of the accelerometer and magnetometer phases
PhaseNext == WNext({ sCAL \o nl }, {PhaseStepMs}, MaxTimeF, Orientations)

PhaseSpec == CalInit /\ [][PhaseNext]_vars

\* the esp firmware with the host switching the live stream on and off
StreamLines == { eIMU_READ_LIVE_ON \o nl, eIMU_READ_LIVE_OFF \o nl }

StreamNext == ENext(StreamLines, EspSteps, MaxTimeE)

StreamSpec == BlockInit /\ [][StreamNext]_vars

\* both firmwares with iterations shorter than the sample interval
CadenceNext ==
    \/ WNext(CadenceLines, {CadenceStepMs}, MaxTimeC, Orientations)
    \/ ENext(StreamLines, EspSteps, MaxTimeE)

CadenceSpec == Init /\ [][CadenceNext]_vars

\* the wizard firmware with the host sending DELAY_ commands
DelayInit == Init /\ variant = "wizard"

DelayNext == WNext(DelayLines, {CadenceStepMs}, MaxTimeC, Orientations)

DelaySpec == DelayInit /\ [][DelayNext]_vars

\* the esp firmware with the host sending commands with free-text arguments
CaseNext == ENext(CaseLines, {}, MaxTimeL)

CaseSpec == BlockInit /\ [][CaseNext]_vars

\* both firmwares running when millis() and micros() overflow (2^32 ms after
\* boot, time 0 here). The initial state is a state of the running program:
\* the wizard firmware has just written a sample, the esp firmware has just
\* written a LIVE line or has stopped its stream.
WrapInit ==
    /\ variant \in {"wizard", "esp"}
    /\ pc = "run"
    /\ ip = 0
    /\ now = IF variant = "wizard" THEN 0 - WrapLeadW ELSE 0 - WrapLeadE
    /\ out = <<>>
    /\ inputString = <<>>
    /\ stringComplete = FALSE
    /\ previousMicros = IF variant = "wizard" THEN micros(0 - WrapLeadW) ELSE 0
    /\ interval = units(DefaultIntervalUs)
    /\ isPaused = FALSE
    /\ isCalibrating = FALSE
    /\ isVHITMode = FALSE
    /\ offsetYaw = 0
    /\ offsetPitch = 0
    /\ offsetRoll = 0
    /\ calTimer = 0
    /\ calStep = 0
    /\ pin12 = TRUE
    /\ pin14 = TRUE
    /\ currentMicros = IF variant = "wizard" THEN micros(0 - WrapLeadW) ELSE 0
    /\ rx = <<>>
    /\ inputBuffer = <<>>
    /\ leftLedState = FALSE
    /\ rightLedState = FALSE
    /\ imuInitialized = (variant = "esp")
    /\ imuLiveMode \in (IF variant = "esp" THEN BOOLEAN ELSE {FALSE})
    /\ lastIMURead = IF variant = "esp" THEN millis(0 - WrapLeadE) ELSE 0
    /\ espnowEnabled = FALSE
    /\ otaEnabled = FALSE
    /\ calStart = 0
    /\ progressAt = 0

WrapNext ==
    \/ \E b \in WrapLines : WSerialEvent(b)
    \/ \E d \in {WrapStepMs, 0}, o \in Orientations :
          WLoopCommand(d, o, MaxTimeWrapW)
    \/ \E d \in {WrapStepMs, 0}, q \in CalReadings, o \in Orientations,
          m \in Motions : WLoopSchedule(d, q, o, m, MaxTimeWrapW)
    \/ \E b \in StreamLines : EHostSend(b)
    \/ \E d \in EspSteps \cup {0}, env \in EspEnvs : ELoopSerial(d, env, MaxTimeWrapE)
    \/ \E d \in EspSteps \cup {0}, env \in EspEnvs : ELoopStream(d, env, MaxTimeWrapE)

WrapSpec == WrapInit /\ [][WrapNext]_vars

\* both firmwares with the host pausing in the middle of a line
\* (the host stops sending pieces once MaxPartialLen characters are pending)
PendingW == { b \in PartialLinesW : Len(inputString) + Len(b) <= MaxPartialLen }

PendingE == { b \in PartialLinesE : Len(inputBuffer) + Len(b) <= MaxPartialLen }

PauseNext ==
    \/ \E begin \in BOOLEAN : WSetup(begin)
    \/ \E b \in PendingW : WSerialEvent(b)
    \/ \E d \in WizardSteps \cup {0}, o \in Orientations :
          WLoopCommand(d, o, MaxTimeW)
    \/ \E d \in WizardSteps \cup {0}, q \in CalReadings, o \in Orientations,
          m \in Motions : WLoopSchedule(d, q, o, m, MaxTimeW)
    \/ \E init \in BOOLEAN : ESetup(init)
    \/ \E b \in PendingE : EHostSend(b)
    \/ \E d \in {PauseStepMs, 0}, env \in EspEnvs : ELoopSerial(d, env, MaxTimeP)
    \/ \E d \in {PauseStepMs, 0}, env \in EspEnvs : ELoopStream(d, env, MaxTimeP)

PauseSpec == Init /\ [][PauseNext]_vars

\* ------------------------------------------------------------------------
\* Properties
\* ------------------------------------------------------------------------

\* C1: a step of the wizard firmware that writes a telemetry line (Euler or
\* VHIT) starts in a state where isCalibrating and isPaused are both false,
\* whatever the mode and the interval
C1_TelemetryGuard ==
    [][(variant = "wizard"
        /\ countTag(out', "EULER") + countTag(out', "VHIT") > 0)
       => (~isCalibrating /\ ~isPaused)]_vars

\* a VHIT sample written after a calibration session ran to its end
C1_Witness ==
    /\ variant = "wizard"
    /\ countTag(out, "VHIT") = 1
    /\ calStep = 2
    /\ ~isCalibrating
    /\ ~isPaused

\* C2 as stated: a calibration session is over once the settle time and the
\* two timeouts have passed (plus one iteration of slack per phase),
\* whatever the sensor reports
C2_SessionTerminates ==
    (variant = "wizard" /\ isCalibrating)
      => MsSub(now, calStart)
           <= GyroSettleMs + AccelTimeoutMs + MagTimeoutMs + 3 * MaxStepW

\* C2 amended: when an iteration of loop() has ended, the accelerometer
\* phase has lasted at most its timeout and the magnetometer phase at most
\* its timeout; the gyroscope phase is not bounded
C2_PhasesTimeOut ==
    (variant = "wizard" /\ pc = "run" /\ ip # 2 /\ isCalibrating)
      => /\ calStep = 1 => MsSub(now, calTimer) <= AccelTimeoutMs
         /\ calStep = 2 => MsSub(now, calTimer) <= MagTimeoutMs

\* the accelerometer phase ended by its timeout: the reading printed with
\* the message is below the threshold
C2_Witness ==
    /\ variant = "wizard"
    /\ isCalibrating
    /\ calStep = 2
    /\ countTag(out, "ACCEL_DONE") = 5
    /\ \E i \in 1..Len(out) :
          out[i].tag = "PROGRESS" /\ out[i].vals[3] < CalThreshold

\* C3: within a session (a step that starts while calibrating and does not
\* process CAL) calStep stays or grows by one, stays within 0..2, and
\* isCalibrating becomes false only from the magnetometer phase
C3_PhaseMonotonic ==
    [][(variant = "wizard" /\ isCalibrating /\ countTag(out', "CAL_BANNER") = 0)
       => /\ calStep' \in {calStep, calStep + 1}
          /\ calStep' \in 0..2
          /\ ~isCalibrating' => calStep = 2]_vars

\* a session that went through the three phases and ended
C3_Witness ==
    /\ variant = "wizard"
    /\ countTag(out, "CAL_COMPLETE") = 6
    /\ calStep = 2
    /\ ~isCalibrating

\* C4 as stated: no error stops the control loop, a sensor that does not
\* start included
C4_NoFatalError == pc # "halted"

\* C5: when the wizard/telemetry check of an iteration is about to run, no
\* complete command waits: the command part of that iteration has run
C5_CommandBeforeSchedule ==
    /\ (variant = "wizard" /\ pc = "run" /\ loopOrder[partsRun + 1] = "schedule")
         => ~stringComplete
    /\ (variant = "esp" /\ pc = "run" /\ espLoopOrder[partsRun + 1] = "stream")
         => rx = <<>>

\* PAUSE was processed and answered, the telemetry check of the same
\* iteration comes next
C5_Witness ==
    /\ variant = "wizard"
    /\ ip = 2
    /\ countTag(out, "SENSOR_PAUSED") = 1
    /\ isPaused

\* C6 as stated: for every n > 0, a step that processes DELAY_<n> in Euler
\* mode leaves interval at exactly n milliseconds (n * 1000 us)
C6_DelayExact ==
    [][(variant = "wizard" /\ pc = "run" /\ stringComplete /\ ~isVHITMode
        /\ startsWith(trim(inputString), sDELAY_)
        /\ toInt(substring(trim(inputString), 6)) > 0)
       => /\ interval' % (1000 \div UsPerUnit) = 0
          /\ interval' \div (1000 \div UsPerUnit)
               = toInt(substring(trim(inputString), 6))]_vars

\* C7: a step that processes DELAY_<n> in VHIT mode, or in Euler mode with
\* n <= 0 or an argument that is no number, changes no variable of the
\* device state
C7_RejectedDelayMutatesNothing ==
    [][(variant = "wizard" /\ pc = "run" /\ stringComplete
        /\ startsWith(trim(inputString), sDELAY_)
        /\ (isVHITMode \/ toInt(substring(trim(inputString), 6)) <= 0))
       => UNCHANGED << previousMicros, interval, isPaused, isCalibrating,
                       isVHITMode, offsetYaw, offsetPitch, offsetRoll,
                       calTimer, calStep, pin12, pin14 >>]_vars

\* DELAY_ was refused in VHIT mode and the interval an earlier DELAY_15000
\* set is still there
C7_Witness ==
    /\ variant = "wizard"
    /\ isVHITMode
    /\ countTag(out, "DELAY_NOT_AVAILABLE_IN_VHIT") = 1
    /\ interval = mul1000(15000)

\* C8 as stated: a step that processes a controller command (output on/off,
\* mode change, PAUSE, DELAY_<n>; LED_ON:/LED_OFF: on the esp firmware)
\* writes exactly one line, whatever the argument
C8_OneResponseLine ==
    [][/\ (variant = "wizard" /\ pc = "run" /\ stringComplete
           /\ (\/ trim(inputString) \in { L_12_ON, L_12_OFF, L_14_ON, L_14_OFF,
                                         MODE_EULER, MODE_VHIT, sPAUSE }
               \/ startsWith(trim(inputString), sDELAY_)))
          => Len(out') = 1
       /\ (variant = "esp" /\ pc = "run" /\ inputBuffer = <<>> /\ rx # <<>>
           /\ (\/ startsWith(toUpperCase(trim(rx)), eLED_ON_)
               \/ startsWith(toUpperCase(trim(rx)), eLED_OFF_)))
          => Len(out') = 1]_vars

\* C9 as stated: a step that reads 40 characters, none a terminator, into
\* an empty buffer writes exactly one length error and leaves the buffer
\* empty
C9_LongLineLeavesBufferEmpty ==
    [][(variant = "esp" /\ pc = "run" /\ inputBuffer = <<>> /\ Len(rx) = 40
        /\ \A i \in 1..Len(rx) : ~isTerminator(rx[i]))
       => /\ countTag(out', "ERROR:COMMAND_TOO_LONG") = 1
          /\ inputBuffer' = <<>>]_vars

\* C10 as stated: a step that reads one terminated line of 1 to 32
\* characters into an empty buffer dispatches it (something is answered)
\* and writes no length error
C10_MaxLength32 ==
    [][(variant = "esp" /\ pc = "run" /\ inputBuffer = <<>> /\ rx # <<>>
        /\ LET notTerminator(c) == ~isTerminator(c)
               n == Len(SelectSeq(rx, notTerminator))
           IN  /\ n \in 1..MAX_COMMAND_LENGTH
               /\ n < Len(rx)
               /\ \A i \in 1..n : ~isTerminator(rx[i]))
       => /\ out' # <<>>
          /\ countTag(out', "ERROR:COMMAND_TOO_LONG") = 0]_vars

\* C11 as stated: the command the wizard firmware is about to dispatch is
\* made of the characters of one line the host sent (or is empty, after a
\* terminator alone); the esp firmware answers every non-empty line of a
\* burst of short lines, in order, and answers nothing to a terminator alone
C11_OneCommandPerLine ==
    [][/\ (variant = "wizard" /\ stringComplete' /\ inputString' # <<>>)
          => \E b \in CmdLines : \E i, j \in 1..Len(b) :
                /\ inputString' = SubSeq(b, i, j)
                /\ \A k \in i..j : ~isTerminator(b[k])
                /\ i = 1 \/ isTerminator(b[i - 1])
                /\ j < Len(b) /\ isTerminator(b[j + 1])
       /\ (variant = "esp" /\ pc = "run" /\ inputBuffer = <<>> /\ rx = nl)
          => out' = <<>>
       /\ (variant = "esp" /\ pc = "run" /\ inputBuffer = <<>>
           /\ rx = <<"F", "O", "O">> \o nl \o <<"B", "A", "R">> \o nl)
          => /\ Len(out') = 2
             /\ out'[1].txt = <<"F", "O", "O">>
             /\ out'[2].txt = <<"B", "A", "R">>]_vars


\* C12 as stated: a step that dispatches a command whose verb is not
\* recognized writes exactly one ERROR:UNKNOWN_COMMAND line that echoes the
\* command, and changes no device state, in both firmwares
C12_UnknownCommandAnswered ==
    [][/\ (variant = "wizard" /\ pc = "run" /\ stringComplete
           /\ trim(inputString) # <<>>
           /\ trim(inputString) \notin { sHELP, L_12_ON, L_12_OFF, L_14_ON,
                                        L_14_OFF, MODE_EULER, MODE_VHIT,
                                        sPAUSE, sCAL, sZERO }
           /\ ~startsWith(trim(inputString), sDELAY_))
          => /\ out' = << LineTxt("ERROR:UNKNOWN_COMMAND", trim(inputString)) >>
             /\ UNCHANGED << previousMicros, interval, isPaused, isCalibrating,
                             isVHITMode, offsetYaw, offsetPitch, offsetRoll,
                             calTimer, calStep, pin12, pin14 >>
       /\ (variant = "esp" /\ pc = "run" /\ inputBuffer = <<>>
           /\ rx = <<"F", "O", "O">> \o nl)
          => /\ out' = << LineTxt("ERROR:UNKNOWN_COMMAND", <<"F", "O", "O">>) >>
             /\ UNCHANGED << leftLedState, rightLedState, pin12, pin14,
                             imuInitialized, imuLiveMode, lastIMURead,
                             espnowEnabled, otaEnabled >>]_vars

\* C13: a step that reads IMU_READ_LIVE_OFF while imuLiveMode is false
\* answers ERROR:IMU_LIVE_NOT_ACTIVE, one that reads IMU_READ_LIVE_ON while
\* imuLiveMode is true answers ERROR:IMU_LIVE_ALREADY_ON, and both leave
\* imuLiveMode and lastIMURead as they were
C13_RedundantStreamCommand ==
    [][/\ (variant = "esp" /\ pc = "run" /\ inputBuffer = <<>>
           /\ rx = eIMU_READ_LIVE_OFF \o nl /\ ~imuLiveMode)
          => /\ out' = << Line("ERROR:IMU_LIVE_NOT_ACTIVE") >>
             /\ UNCHANGED << imuLiveMode, lastIMURead >>
       /\ (variant = "esp" /\ pc = "run" /\ inputBuffer = <<>>
           /\ rx = eIMU_READ_LIVE_ON \o nl /\ imuLiveMode)
          => /\ out' = << Line("ERROR:IMU_LIVE_ALREADY_ON") >>
             /\ UNCHANGED << imuLiveMode, lastIMURead >>]_vars

\* IMU_READ_LIVE_ON was refused while the stream runs, and the time of the
\* last sample is not the time of the command
C13_Witness ==
    /\ variant = "esp"
    /\ out = << Line("ERROR:IMU_LIVE_ALREADY_ON") >>
    /\ imuLiveMode
    /\ lastIMURead < now

\* C14: a step that writes ERROR:IMU_DISCONNECTED writes no LIVE line and
\* ends with imuLiveMode false; a LIVE line is written only by a step that
\* starts with imuLiveMode true; and imuLiveMode becomes true only in a
\* step that accepts IMU_READ_LIVE_ON
C14_DisconnectStopsStream ==
    [][(variant = "esp")
       => /\ countTag(out', "ERROR:IMU_DISCONNECTED") > 0
               => (~imuLiveMode' /\ countTag(out', "LIVE") = 0)
          /\ countTag(out', "LIVE") > 0 => imuLiveMode
          /\ (~imuLiveMode /\ imuLiveMode')
               => countTag(out', "IMU_LIVE:STARTED") = 1]_vars

\* the stream ran, the sensor was found disconnected on a tick, the stream
\* is off
C14_Witness ==
    /\ variant = "esp"
    /\ out = << Line("ERROR:IMU_DISCONNECTED") >>
    /\ ~imuLiveMode
    /\ imuInitialized
    /\ lastIMURead = now

\* C15 as stated: a step that processes MODE_EULER, MODE_VHIT or PAUSE
\* leaves previousMicros at the time the iteration read from the clock
C15_ClockResetOnChange ==
    [][(variant = "wizard" /\ pc = "run" /\ stringComplete
        /\ trim(inputString) \in { MODE_EULER, MODE_VHIT, sPAUSE })
       => previousMicros' = currentMicros']_vars

\* C16: a step that writes a VHIT line (6 fields) starts and ends in VHIT
\* mode with at least vhitInterval elapsed since the last sample; a step
\* that writes an Euler line (3 fields) starts and ends in Euler mode with
\* at least interval elapsed; no step writes both
C16_NoStaleSample ==
    [][(variant = "wizard")
       => /\ \A i \in 1..Len(out') :
               /\ out'[i].tag = "VHIT"
                    => /\ isVHITMode /\ isVHITMode'
                       /\ Len(out'[i].vals) = 6
                       /\ USub(currentMicros', previousMicros) >= vhitInterval
               /\ out'[i].tag = "EULER"
                    => /\ ~isVHITMode /\ ~isVHITMode'
                       /\ Len(out'[i].vals) = 3
                       /\ USub(currentMicros', previousMicros) >= interval
          /\ countTag(out', "EULER") + countTag(out', "VHIT") <= 1]_vars

\* a VHIT sample written while the Euler interval is 15 s
C16_Witness ==
    /\ variant = "wizard"
    /\ isVHITMode
    /\ interval = mul1000(15000)
    /\ \E i \in 1..Len(out) : out[i].tag = "VHIT" /\ Len(out[i].vals) = 6

\* C17: a step that processes PAUSE inverts isPaused and changes nothing
\* else of the device state, and processing PAUSE once more from the state
\* it leaves gives back the device state it started from
C17_PauseInvolution ==
    [][(variant = "wizard" /\ pc = "run" /\ stringComplete
        /\ trim(inputString) = sPAUSE)
       => /\ isPaused' = ~isPaused
          /\ UNCHANGED << previousMicros, interval, isCalibrating, isVHITMode,
                          offsetYaw, offsetPitch, offsetRoll, calTimer, calStep,
                          pin12, pin14 >>
          /\ \A o \in Orientations :
                processCommand(WDev', sPAUSE, now', o).dev = WDev]_vars

\* the second of two PAUSE commands was answered: the sensor runs again,
\* in VHIT mode
C17_Witness ==
    /\ variant = "wizard"
    /\ out = << Line("SENSOR_RESUMED") >>
    /\ ~isPaused
    /\ isVHITMode

\* C18 as stated: every angle of an Euler sample, normalizeAngle applied to
\* the reading minus the offset, lies in (-180, 180], is congruent modulo
\* 360 to what went in, and is a fixed point of normalizeAngle
C18_NormalizeRange ==
    [][(variant = "wizard")
       => \A i \in 1..Len(out') :
             out'[i].tag = "EULER"
               => /\ \A k \in 1..3 :
                       /\ -180 < out'[i].vals[k]
                       /\ out'[i].vals[k] <= 180
                       /\ normalizeAngle(out'[i].vals[k]) = out'[i].vals[k]
                  /\ \E o \in AngleReadings :
                       /\ (out'[i].vals[1] - ((0 - o[1]) - offsetYaw)) % 360 = 0
                       /\ (out'[i].vals[2] - ((0 - o[2]) - offsetPitch)) % 360 = 0
                       /\ (out'[i].vals[3] - ((0 - o[3]) - offsetRoll)) % 360 = 0]_vars

\* C19: a step that processes ZERO at some reading o leaves offsets with
\* which a sample of the same reading is (0, 0, 0) and a sample of any
\* reading r is, angle by angle, congruent modulo 360 to o - r and within
\* -180..180
C19_ZeroRoundTrip ==
    [][(variant = "wizard" /\ pc = "run" /\ stringComplete
        /\ trim(inputString) = sZERO)
       => \E o \in AngleReadings :
             /\ readAndSendEulerData(WDev', o) = << LineVals("EULER", <<0, 0, 0>>) >>
             /\ \A r \in AngleReadings : \A k \in 1..3 :
                   LET v == readAndSendEulerData(WDev', r)[1].vals[k]
                   IN  /\ (v - (o[k] - r[k])) % 360 = 0
                       /\ -180 <= v /\ v <= 180]_vars

\* ZERO was processed away from the origin and the sample that follows
\* reads (0, 0, 0)
C19_Witness ==
    /\ variant = "wizard"
    /\ offsetYaw # 0
    /\ offsetPitch # 0
    /\ out = << LineVals("EULER", <<0, 0, 0>>) >>

\* C20: a partially received command is discarded once the command timeout
\* has passed without a terminator: a loop iteration that reads the clock
\* CommandTimeoutMs or more after the previous one, with characters
\* accumulated and no terminator received (and, on the esp firmware, no new
\* byte in the port), leaves the accumulator empty, so that these characters
\* cannot be prepended to what the host sends later.
C20_PartialCommandDiscarded ==
    [][/\ (variant = "wizard" /\ pc = "run" /\ ~stringComplete
            /\ inputString # <<>> /\ now' - now >= CommandTimeoutMs)
          => inputString' = <<>>
       /\ (variant = "esp" /\ pc = "run" /\ pc' = "run" /\ rx = <<>>
            /\ inputBuffer # <<>> /\ now' - now >= CommandTimeoutMs)
          => inputBuffer' = <<>>]_vars

\* C21 as stated: no command handler blocks the control loop: a step of
\* the esp loop() that processes the commands in the port and returns to
\* the loop takes no longer than the idle delay
C21_NoHandlerBlocks ==
    [][(variant = "esp" /\ pc = "run" /\ pc' = "run")
          => now' - now <= IdleDelayMs]_vars

\* C22: the LED outputs are independent and persistent. In every step of
\* the esp firmware that does not restart the chip, leftLedState becomes
\* true exactly by LED_ON:LEFT or LED_ON:BOTH, false exactly by LED_OFF:LEFT
\* or LED_OFF:BOTH, and keeps its value under every other command (PING
\* included); likewise rightLedState with RIGHT and BOTH; and after the step
\* each pin is LOW exactly if its LED state is on.
C22_LedIndependentPersistent ==
    [][(variant = "esp" /\ pc = "run" /\ pc' = "run" /\ inputBuffer = <<>>)
          => LET command == toUpperCase(trim(rx))
                 onL == command \in { eLED_ON_ \o tLEFT, eLED_ON_ \o tBOTH }
                 offL == command \in { eLED_OFF_ \o tLEFT, eLED_OFF_ \o tBOTH }
                 onR == command \in { eLED_ON_ \o tRIGHT, eLED_ON_ \o tBOTH }
                 offR == command \in { eLED_OFF_ \o tRIGHT, eLED_OFF_ \o tBOTH }
             IN  /\ leftLedState' = IF onL THEN TRUE
                                     ELSE IF offL THEN FALSE ELSE leftLedState
                 /\ rightLedState' = IF onR THEN TRUE
                                      ELSE IF offR THEN FALSE ELSE rightLedState
                 /\ pin12' = ~leftLedState'
                 /\ pin14' = ~rightLedState']_vars

\* C22 witness: PING was answered with the left LED on and the right one
\* off, and the outputs are as they were
C22_Witness ==
    /\ variant = "esp"
    /\ leftLedState /\ ~rightLedState /\ ~pin12 /\ pin14
    /\ out = << Line("SIEV_ESP_OK") >>

\* C23 as stated: the label of every IMU_CALIBRATE answer follows the scale
\* UNCALIBRATED < PARTIAL < GOOD < FULLY_CALIBRATED and is monotone: no
\* tuple of levels that is at least as high in every component gets a lower
\* label; the label is FULLY_CALIBRATED iff all four levels are 3 and
\* UNCALIBRATED iff all four are 0.
C23_LabelMonotone ==
    \A i \in 1..Len(out) :
        (variant = "esp" /\ out[i].tag = "CALIBRATE")
          => LET v == out[i].vals
                 l == out[i].txt[1]
             IN  /\ (l = "FULLY_CALIBRATED") <=> (\A k \in 1..4 : v[k] = 3)
                 /\ (l = "UNCALIBRATED") <=> (\A k \in 1..4 : v[k] = 0)
                 /\ \A e \in CalibEnvs :
                       (/\ e.cal.system >= v[1] /\ e.cal.gyro >= v[2]
                        /\ e.cal.accel >= v[3] /\ e.cal.mag >= v[4])
                         => labelRank(calibrationLabel(e.cal)) >= labelRank(l)

\* C24: the gyroscope phase. A step that runs the wizard in phase GYRO
\* enters ACCEL only if at least GyroSettleMs have passed since the phase
\* timer was last set and the gyroscope quality read in the step is at
\* least the threshold, and it does enter ACCEL then; if the settle time has
\* passed and the quality is below the threshold, the phase timer is set to
\* the current time and the phase stays GYRO; before the settle time the
\* phase and its timer stay as they are.
C24_GyroPhase ==
    [][(variant = "wizard" /\ pc = "run" /\ loopOrder[partsRun + 1] = "schedule"
        /\ isCalibrating /\ calStep = 0)
          => LET elapsed == MsSub(now', calTimer)
             IN  /\ calStep' \in {0, 1}
                 /\ \E q \in CalReadings : handleCalibration(WDev, now', q).dev = WDev'
                 /\ \A q \in CalReadings :
                       handleCalibration(WDev, now', q).dev = WDev'
                         => (calStep' = 1
                               <=> (elapsed >= GyroSettleMs /\ q.gyro >= CalThreshold))
                 /\ (elapsed >= GyroSettleMs /\ calStep' = 0) => calTimer' = now'
                 /\ elapsed < GyroSettleMs => calTimer' = calTimer]_vars

\* C24 witness: the phase was left exactly GyroSettleMs after the session
\* began
C24_Witness ==
    /\ variant = "wizard"
    /\ isCalibrating
    /\ calStep = 1
    /\ countTag(out, "GYRO_DONE") = 8
    /\ MsSub(now, calStart) = GyroSettleMs

\* C25: the accelerometer phase. A step that runs the wizard in phase ACCEL
\* enters MAG exactly if the accelerometer quality read in the step is at
\* least the threshold or more than AccelTimeoutMs have passed since ACCEL
\* was entered, and then sets the phase timer to the current time; otherwise
\* phase and timer stay as they are. Every other step leaves the phase and
\* its timer alone, unless it processes CAL and restarts the session.
C25_AccelPhase ==
    [][(variant = "wizard" /\ pc = "run" /\ isCalibrating /\ calStep = 1)
          => IF loopOrder[partsRun + 1] = "schedule" /\ ip' = 0
             THEN LET elapsed == MsSub(now', calTimer)
                  IN  /\ isCalibrating'
                      /\ calStep' \in {1, 2}
                      /\ \E q \in CalReadings :
                            handleCalibration(WDev, now', q).dev = WDev'
                      /\ \A q \in CalReadings :
                            handleCalibration(WDev, now', q).dev = WDev'
                              => (calStep' = 2
                                    <=> (q.accel >= CalThreshold
                                         \/ elapsed > AccelTimeoutMs))
                      /\ calStep' = 2 => calTimer' = now'
                      /\ calStep' = 1 => calTimer' = calTimer
             ELSE \/ isCalibrating' /\ calStep' = 1 /\ calTimer' = calTimer
                  \/ /\ countTag(out', "CAL_BANNER") = 5
                     /\ isCalibrating' /\ calStep' = 0 /\ calTimer' = now']_vars

\* C25 witness: the phase was left by its timeout, with an accelerometer
\* quality below the threshold, and the phase timer was restarted
C25_Witness ==
    /\ variant = "wizard"
    /\ isCalibrating
    /\ calStep = 2
    /\ calTimer = now
    /\ MsSub(now, calStart) > AccelTimeoutMs
    /\ countTag(out, "ACCEL_DONE") = 5
    /\ \E i \in 1..Len(out) :
          out[i].tag = "PROGRESS" /\ out[i].vals[3] < CalThreshold

\* the lines only handleCalibration prints
WizardTags ==
    { "PROGRESS", "HOLD_STILL", "GYRO_DONE", "ACCEL_DONE", "KEEP_MOVING",
      "KEEP_FIGURE_8", "CAL_COMPLETE", "CAL_SUGGEST" }

\* C26: the magnetometer phase. A step that runs the wizard in phase MAG
\* ends the session (prints the final snapshot, clears isCalibrating)
\* exactly if the magnetometer quality read in the step is at least the
\* threshold or more than MagTimeoutMs have passed since MAG was entered;
\* otherwise it prints no snapshot and leaves phase and timer alone. While
\* no session is active no step prints a wizard line or changes the phase
\* or its timer, unless it processes CAL and begins a session.
C26_MagPhase ==
    [][/\ (variant = "wizard" /\ pc = "run" /\ isCalibrating /\ calStep = 2
           /\ loopOrder[partsRun + 1] = "schedule" /\ ip' = 0)
          => LET elapsed == MsSub(now', calTimer)
             IN  /\ \E q \in CalReadings :
                       handleCalibration(WDev, now', q).dev = WDev'
                 /\ \A q \in CalReadings :
                       handleCalibration(WDev, now', q).dev = WDev'
                         => (~isCalibrating'
                               <=> (q.mag >= CalThreshold
                                    \/ elapsed > MagTimeoutMs))
                 /\ ~isCalibrating' <=> countTag(out', "CAL_COMPLETE") = 6
                 /\ isCalibrating' => countTag(out', "CAL_COMPLETE") = 0
                 /\ calStep' = 2 /\ calTimer' = calTimer
       /\ (variant = "wizard" /\ pc = "run" /\ ~isCalibrating)
          => IF countTag(out', "CAL_BANNER") = 5
             THEN isCalibrating' /\ calStep' = 0 /\ calTimer' = now'
             ELSE /\ ~isCalibrating'
                  /\ calStep' = calStep /\ calTimer' = calTimer
                  /\ \A i \in 1..Len(out') : out'[i].tag \notin WizardTags]_vars

\* C26 witness: the session was ended by the timeout of the magnetometer
\* phase and the final snapshot was printed
C26_Witness ==
    /\ variant = "wizard"
    /\ ~isCalibrating
    /\ calStep = 2
    /\ MsSub(now, calTimer) > MagTimeoutMs
    /\ MsSub(now, calTimer) <= MagTimeoutMs + PhaseStepMs
    /\ countTag(out, "CAL_COMPLETE") = 6

\* the latest time at which a session in phase ACCEL or MAG is over, with
\* iterations at most PhaseStepMs apart: the ceilings that are still ahead,
\* each reached one iteration late at most
sessionDeadline(step, timer) ==
    IF step = 1
    THEN timer + AccelTimeoutMs + PhaseStepMs + MagTimeoutMs + PhaseStepMs
    ELSE timer + MagTimeoutMs + PhaseStepMs

\* C27: once a session has reached ACCEL and no CAL is processed, it ends
\* within the two ceilings (plus one iteration each) of the time ACCEL was
\* entered, whatever the sensor reports: at the entry the deadline is the
\* entry time plus both ceilings, no step without CAL moves the deadline
\* later, and while the session is active the clock is not past it.
C27_SessionEndsAfterAccel ==
    [][(variant = "wizard" /\ pc = "run" /\ isCalibrating /\ calStep >= 1
        /\ countTag(out', "CAL_BANNER") = 0 /\ isCalibrating')
          => /\ calStep' >= 1
             /\ sessionDeadline(calStep', calTimer') <= sessionDeadline(calStep, calTimer)
             /\ now' <= sessionDeadline(calStep', calTimer')
             /\ ip' = 0 => now' < sessionDeadline(calStep', calTimer') - PhaseStepMs + 1]_vars

\* C27 witness: a session in phase MAG that has lasted exactly the ceiling
\* of the phase when an iteration ends
C27_Witness ==
    /\ variant = "wizard"
    /\ isCalibrating
    /\ calStep = 2
    /\ ip = 0
    /\ MsSub(now, calTimer) = MagTimeoutMs

\* C28 as stated: while a session is active a progress report is printed at
\* a fixed cadence whatever time the iterations take: when an iteration has
\* ended, the last progress line of the session (or its start, if there is
\* none yet) is at most ProgressWindowMs old.
C28_ProgressCadence ==
    (variant = "wizard" /\ pc = "run" /\ ip = 0 /\ isCalibrating)
      => MsSub(now, progressAt) <= ProgressWindowMs

\* C29: CAL always begins the session anew. A step that processes the
\* command CAL, in whatever state (a session in phase ACCEL or MAG
\* included), prints the banner and leaves isCalibrating true, the phase
\* GYRO and the phase timer at the current time.
C29_CalRestarts ==
    [][(variant = "wizard" /\ pc = "run" /\ stringComplete
        /\ trim(inputString) = sCAL /\ ~stringComplete')
          => /\ countTag(out', "CAL_BANNER") = 5
             /\ isCalibrating'
             /\ calStep' = 0
             /\ calTimer' = now']_vars

\* C29 witness: CAL has just been processed, later than a first session
\* could have begun and reached the accelerometer phase
C29_Witness ==
    /\ variant = "wizard"
    /\ ip = 2
    /\ countTag(out, "CAL_BANNER") = 5
    /\ isCalibrating /\ calStep = 0 /\ calTimer = now /\ calStart = now
    /\ now >= WizardBootMs + 2 * PhaseStepMs

\* C30 as stated: a running session can be cancelled by a command: in
\* every state of an active session there is a line the host can send
\* whose processing leaves isCalibrating false.
C30_CancelCommandExists ==
    (variant = "wizard" /\ pc = "run" /\ isCalibrating)
      => \E c \in CmdLines, o \in Orientations :
            LET st == serialEvent([inputString |-> <<>>, stringComplete |-> FALSE], c)
            IN  ~loopCommand(WDev, st, now, o).dev.isCalibrating

\* the number of telemetry lines among the lines
telemetryLines(lines) == countTag(lines, "EULER") + countTag(lines, "VHIT")

\* C31: calibration is independent of the rest of the device state. A step
\* that runs the second half of loop() during a session is a step of the
\* wizard for some calibration reading, the wizard does for every reading
\* the same with isPaused true as with isPaused false, and the step leaves
\* isPaused, isVHITMode, interval, the zero offsets and previousMicros as
\* they are and prints no telemetry. With no session active the same half
\* prints telemetry only if the sensor is not paused, in the format of the
\* mode that is set, and does print it when not paused and the interval
\* has passed.
C31_CalibrationIndependent ==
    [][/\ (variant = "wizard" /\ pc = "run" /\ isCalibrating
           /\ loopOrder[partsRun + 1] = "schedule" /\ ip' = 0)
          => /\ \E q \in CalReadings :
                   /\ handleCalibration(WDev, now', q).dev = WDev'
                   /\ handleCalibration(WDev, now', q).lines = out'
             /\ \A q \in CalReadings :
                   LET a == handleCalibration([WDev EXCEPT !.isPaused = TRUE], now', q)
                       b == handleCalibration([WDev EXCEPT !.isPaused = FALSE], now', q)
                   IN  /\ a.lines = b.lines
                       /\ a.dev = [b.dev EXCEPT !.isPaused = TRUE]
             /\ UNCHANGED << isPaused, isVHITMode, interval, offsetYaw,
                             offsetPitch, offsetRoll, previousMicros >>
             /\ telemetryLines(out') = 0
       /\ (variant = "wizard" /\ pc = "run" /\ ~isCalibrating
           /\ loopOrder[partsRun + 1] = "schedule" /\ ip' = 0)
          => /\ telemetryLines(out') <= 1
             /\ isPaused => telemetryLines(out') = 0
             /\ countTag(out', "VHIT") = 1 => isVHITMode
             /\ countTag(out', "EULER") = 1 => ~isVHITMode
             /\ (~isPaused
                 /\ USub(currentMicros', previousMicros)
                       >= (IF isVHITMode THEN vhitInterval ELSE interval))
                  => telemetryLines(out') = 1]_vars

\* C31 witness: a session went through its phases and ended while the sensor
\* was paused
C31_Witness ==
    /\ variant = "wizard"
    /\ isPaused
    /\ ~isCalibrating
    /\ calStep = 2
    /\ countTag(out, "CAL_COMPLETE") = 6

\* C32: a disconnect is the only implicit stop of the stream. A step in
\* which imuLiveMode goes from true to false restarts the chip, or answers
\* IMU_READ_LIVE_OFF with IMU_LIVE:STOPPED, or reports IMU_DISCONNECTED. A
\* tick with the sensor connected and the read failing prints
\* ERROR:IMU_LIVE_READ_FAILED alone and leaves imuLiveMode true.
C32_OnlyDisconnectStops ==
    [][/\ (variant = "esp" /\ pc = "run" /\ imuLiveMode /\ ~imuLiveMode')
          => \/ pc' = "setup"
             \/ /\ toUpperCase(trim(inputBuffer \o rx)) = eIMU_READ_LIVE_OFF
                /\ out' = << Line("IMU_LIVE:STOPPED") >>
             \/ out' = << Line("ERROR:IMU_DISCONNECTED") >>
       /\ (variant = "esp" /\ pc = "run" /\ imuLiveMode /\ imuInitialized
           /\ espLoopOrder[partsRun + 1] = "stream")
          => /\ \E env \in EspEnvs :
                   /\ processIMULiveStream(EDev, now', env).dev = EDev'
                   /\ processIMULiveStream(EDev, now', env).lines = out'
             /\ \A env \in EspEnvs :
                   (/\ env.connected /\ ~env.readOk
                    /\ MsSub(now', lastIMURead) >= IMU_SAMPLE_INTERVAL_MS)
                     => LET r == processIMULiveStream(EDev, now', env)
                        IN  /\ r.lines = << Line("ERROR:IMU_LIVE_READ_FAILED") >>
                            /\ r.dev.imuLiveMode
             /\ countTag(out', "ERROR:IMU_LIVE_READ_FAILED") = 1
                  => /\ countTag(out', "LIVE") = 0
                     /\ imuLiveMode']_vars

\* C32 witness: a read failed on a tick and the stream is still on
C32_Witness ==
    /\ variant = "esp"
    /\ imuLiveMode
    /\ lastIMURead = now
    /\ out = << Line("ERROR:IMU_LIVE_READ_FAILED") >>

\* the interval the wizard firmware schedules with in its current mode
activeInterval == IF isVHITMode THEN vhitInterval ELSE interval

\* C33: the scheduler resets to "now". A half of loop() of either firmware
\* writes at most one telemetry line (EULER or VHIT, LIVE), and the first half of an
\* iteration writes none; a step that writes one starts with at least the
\* active interval elapsed since the last emission time and ends with the
\* last emission time equal to the iteration's clock reading; and the last
\* emission time moves only to the iteration's clock reading, so that two
\* consecutive telemetry lines are at least one active interval apart.
C33_ResetToNow ==
    [][/\ (variant = "wizard" /\ pc = "run" /\ ip' # ip /\ ip' # 1)
          => /\ telemetryLines(out') <= 1
             /\ telemetryLines(out') = 1
                  => /\ loopOrder[partsRun + 1] = "schedule" /\ ip' = 0
                     /\ USub(currentMicros', previousMicros) >= activeInterval
                     /\ currentMicros' = micros(now')
                     /\ previousMicros' = currentMicros'
             /\ previousMicros' # previousMicros => telemetryLines(out') = 1
       /\ (variant = "esp" /\ pc = "run" /\ ip' # ip)
          => /\ countTag(out', "LIVE") <= 1
             /\ countTag(out', "LIVE") = 1
                  => /\ espLoopOrder[partsRun + 1] = "stream" /\ ip' = 0
                     /\ MsSub(millis(now'), lastIMURead) >= IMU_SAMPLE_INTERVAL_MS
                     /\ lastIMURead' = millis(now')
             /\ lastIMURead' # lastIMURead
                  => (pc' = "run" => lastIMURead' = millis(now'))]_vars

\* C33 witnesses: an Euler sample written later than the first iteration
\* with the interval of DELAY_50, and a LIVE line
C33_Witness ==
    \/ /\ variant = "wizard"
       /\ interval = units(50000)
       /\ ~isVHITMode
       /\ countTag(out, "EULER") = 1
       /\ previousMicros = currentMicros
       /\ now >= WizardBootMs + 2 * CadenceStepMs
    \/ /\ variant = "esp"
       /\ countTag(out, "LIVE") = 1
       /\ lastIMURead = now

\* C34: the orientation sample interval of the wizard firmware is positive
\* in every reachable state, whatever DELAY_ commands were sent
C34_IntervalPositive == variant = "wizard" => interval > 0

\* the text after the first colon of a line as the host sent it
argumentText(raw) == substring(trim(raw), indexOf(trim(raw), ":") + 1)

\* C35: the parser folds the case of the verb only. When the esp firmware
\* accepts OTA_START:<ssid>:<password> the credentials it connects with are
\* the argument text as the host sent it, and when it accepts
\* GADGET_SEND:<mac>:<data> the address it echoes is the text the host sent.
C35_ArgumentsKeepCase ==
    [][(variant = "esp" /\ pc = "run" /\ ip' # ip
        /\ espLoopOrder[partsRun + 1] = "serial")
       => \A i \in 1..Len(out') :
             /\ out'[i].tag = "OTA:ENABLED"
                  => out'[i].txt = argumentText(inputBuffer \o rx)
             /\ out'[i].tag = "GADGET_SENT"
                  => out'[i].txt
                       = substring2(argumentText(inputBuffer \o rx), 0,
                                    indexOf(argumentText(inputBuffer \o rx), ":"))]_vars

\* C36: an over-long line is rejected as a whole. When the esp firmware
\* reads, into an empty buffer, one terminated line that is longer than the
\* firmware accepts, the length error is all it answers: no command is
\* dispatched from any part of the line, and the buffer is empty afterwards.
C36_LongLineRejectedWhole ==
    [][(/\ variant = "esp" /\ pc = "run" /\ ip' # ip
        /\ espLoopOrder[partsRun + 1] = "serial"
        /\ inputBuffer = <<>>
        /\ Len(rx) >= MAX_COMMAND_LENGTH + 1
        /\ isTerminator(rx[Len(rx)])
        /\ \A i \in 1..(Len(rx) - 1) : ~isTerminator(rx[i]))
       => /\ out' = << Line("ERROR:COMMAND_TOO_LONG") >>
          /\ inputBuffer' = <<>>]_vars

\* C37: an LED command with a target other than LEFT, RIGHT or BOTH, the
\* empty target included, is answered with exactly one line,
\* ERROR:INVALID_LED_TARGET:<target>, and leaves both LED states and both
\* pin levels as they were.
C37_InvalidLedTarget ==
    [][(/\ variant = "esp" /\ pc = "run" /\ ip' # ip
        /\ espLoopOrder[partsRun + 1] = "serial"
        /\ inputBuffer = <<>>
        /\ rx # <<>>
        /\ Len(rx) <= MAX_COMMAND_LENGTH
        /\ isTerminator(rx[Len(rx)])
        /\ \A i \in 1..(Len(rx) - 1) : rx[i] # "\n"
        /\ \/ startsWith(toUpperCase(trim(rx)), eLED_ON_)
           \/ startsWith(toUpperCase(trim(rx)), eLED_OFF_)
        /\ substring(toUpperCase(trim(rx)), indexOf(trim(rx), ":") + 1)
              \notin { tLEFT, tRIGHT, tBOTH })
       => /\ out' = << LineTxt("ERROR:INVALID_LED_TARGET",
                                substring(toUpperCase(trim(rx)),
                                          indexOf(trim(rx), ":") + 1)) >>
          /\ UNCHANGED << leftLedState, rightLedState, pin12, pin14 >>]_vars

\* C37 witness: the empty target was rejected with the left LED on and the
\* right one off
C37_Witness ==
    /\ variant = "esp"
    /\ out = << LineTxt("ERROR:INVALID_LED_TARGET", <<>>) >>
    /\ leftLedState /\ ~pin12
    /\ ~rightLedState /\ pin14

\* C38: stream start ordering. The step that accepts IMU_READ_LIVE_ON
\* writes IMU_LIVE:STARTED and no LIVE line and sets lastIMURead to the
\* current time; while the stream is on lastIMURead never goes back; and a
\* LIVE line is written only with the stream already on and at least one
\* sample interval after lastIMURead. Hence IMU_LIVE:STARTED precedes every
\* LIVE line of its stream, and the first one comes no sooner than 20 ms
\* after the command was accepted.
C38_StreamStartOrdering ==
    [][(variant = "esp" /\ pc = "run" /\ ip' # ip)
       => /\ (~imuLiveMode /\ imuLiveMode')
               => /\ espLoopOrder[partsRun + 1] = "serial"
                  /\ toUpperCase(trim(inputBuffer \o rx)) = eIMU_READ_LIVE_ON
                  /\ out' = << LineNum("IMU_LIVE:STARTED", IMU_SAMPLE_RATE_HZ) >>
                  /\ lastIMURead' = millis(now')
          /\ (imuLiveMode /\ imuLiveMode') => lastIMURead' >= lastIMURead
          /\ countTag(out', "LIVE") > 0
               => /\ imuLiveMode
                  /\ espLoopOrder[partsRun + 1] = "stream"
                  /\ \A i \in 1..Len(out') :
                        out'[i].tag = "LIVE"
                          => out'[i].num >= lastIMURead + IMU_SAMPLE_INTERVAL_MS]_vars

\* C38 witness: the first LIVE line of a stream that was started right
\* after boot, one sample interval after the command
C38_Witness ==
    /\ variant = "esp"
    /\ imuLiveMode
    /\ now = EspBootMs + IMU_SAMPLE_INTERVAL_MS
    /\ out = << LineNum("LIVE", EspBootMs + IMU_SAMPLE_INTERVAL_MS) >>

\* C39: in every reachable state of the esp firmware imuLiveMode implies
\* imuInitialized, and a step that reads IMU_READ_LIVE_ON with the sensor
\* not initialized answers ERROR:IMU_NOT_INITIALIZED alone and changes
\* nothing, so that the stream tick never runs without a sensor object.
C39_LiveModeNeedsSensor ==
    /\ [](variant = "esp" /\ imuLiveMode => imuInitialized)
    /\ [][(/\ variant = "esp" /\ pc = "run" /\ ip' # ip
            /\ espLoopOrder[partsRun + 1] = "serial"
            /\ ~imuInitialized
            /\ toUpperCase(trim(inputBuffer \o rx)) = eIMU_READ_LIVE_ON)
           => /\ out' = << Line("ERROR:IMU_NOT_INITIALIZED") >>
              /\ EDev' = EDev
              /\ ~imuLiveMode']_vars

\* C39 witness: IMU_READ_LIVE_ON was refused on a board whose sensor did
\* not initialize
C39_Witness ==
    /\ variant = "esp"
    /\ pc = "run"
    /\ ~imuInitialized
    /\ ~imuLiveMode
    /\ out = << Line("ERROR:IMU_NOT_INITIALIZED") >>

\* a microsecond reading (units) as the signed number with the same bits,
\* and the true time t (ms) in the same units
signedMicros(x) == IF x >= UnitsMod \div 2 THEN x - UnitsMod ELSE x

trueMicros(t) == t * (1000 \div UsPerUnit)

====
